---- MODULE Spec2Model ----
(***************************************************************************)
(* Model of the trading engine of exness-end-to-end (engine/src):          *)
(* BalanceManager (balance_manager.rs), Processor (processor.rs) and the   *)
(* tasks main (main.rs) spawns: the command loop, the liquidation scanner  *)
(* and the snapshot writer.                                                *)
(*                                                                         *)
(* Strings that the code formats or parses (Decimal::to_string,            *)
(* Decimal::from_str, the BTreeMap<String, _> keys of liquidation_map, the *)
(* decimals of snapshot.json) are sequences of one-character strings.      *)
(* Identifiers that the code only compares (user ids, order ids, symbols,  *)
(* "long"/"short") are TLA+ strings.                                       *)
(***************************************************************************)
EXTENDS Integers, Sequences, FiniteSets, TLC

(***************************************************************************)
(* rust_decimal::Decimal: a mantissa m and a scale s, the value m / 10^s.  *)
(***************************************************************************)

\* Decimal::MAX_SCALE of rust_decimal: the largest scale a result may take.
DecMaxScale == 28

RECURSIVE Pow10(_)
Pow10(n) == IF n = 0 THEN 1 ELSE 10 * Pow10(n - 1)

Abs(n) == IF n < 0 THEN -n ELSE n

Max(a, b) == IF a >= b THEN a ELSE b

\* Decimal::from(n) for an integer n: scale 0.
DecFromInt(n) == [m |-> n, s |-> 0]

\* The mantissa of d rescaled to scale s (s >= d.s).
DecRescale(d, s) == d.m * Pow10(s - d.s)

\* a + b and a - b: both operands are brought to the larger scale.
DecAdd(a, b) ==
    LET s == Max(a.s, b.s) IN [m |-> DecRescale(a, s) + DecRescale(b, s), s |-> s]

DecSub(a, b) ==
    LET s == Max(a.s, b.s) IN [m |-> DecRescale(a, s) - DecRescale(b, s), s |-> s]

\* a * b: the mantissas multiply, the scales add.
DecMul(a, b) == [m |-> a.m * b.m, s |-> a.s + b.s]

\* The digits of a quotient num / den (both >= 0, den > 0) at scale `scale`:
\* the division goes on one digit at a time while a remainder is left and the
\* scale is below DecMaxScale; a remainder left at DecMaxScale is rounded.
RECURSIVE DivLoop(_, _, _)
DivLoop(num, den, scale) ==
    IF num % den = 0 THEN [m |-> num \div den, s |-> scale]
    ELSE IF scale >= DecMaxScale
         THEN LET q == num \div den
                  r == num % den
              IN  [m |-> IF 2 * r > den \/ (2 * r = den /\ q % 2 = 1)
                         THEN q + 1 ELSE q,
                   s |-> scale]
         ELSE DivLoop(num * 10, den, scale + 1)

\* Whether a / b traps: rust_decimal panics on a division by zero.
DecDivTraps(a, b) == b.m = 0

\* a / b for b # 0: the quotient starts at scale a.s - b.s (raised to 0 when
\* negative) and takes as many more digits as the division needs.
DecDiv(a, b) ==
    LET neg == (a.m < 0) # (b.m < 0)
        s0  == IF a.s >= b.s THEN a.s - b.s ELSE 0
        num == IF a.s >= b.s THEN Abs(a.m) ELSE Abs(a.m) * Pow10(b.s - a.s)
        q   == DivLoop(num, Abs(b.m), s0)
    IN  [m |-> IF neg THEN -q.m ELSE q.m, s |-> q.s]

\* Decimal's PartialOrd / PartialEq compare values, not representations.
DecLt(a, b) == LET s == Max(a.s, b.s) IN DecRescale(a, s) < DecRescale(b, s)
DecLe(a, b) == LET s == Max(a.s, b.s) IN DecRescale(a, s) <= DecRescale(b, s)
DecGe(a, b) == DecLe(b, a)
DecEq(a, b) == LET s == Max(a.s, b.s) IN DecRescale(a, s) = DecRescale(b, s)

DigitChars == <<"0", "1", "2", "3", "4", "5", "6", "7", "8", "9">>

IsDigit(c) == \E i \in 1..10 : DigitChars[i] = c

DigitVal(c) == (CHOOSE i \in 1..10 : DigitChars[i] = c) - 1

\* The decimal digits of n >= 0, most significant first.
RECURSIVE NatDigits(_)
NatDigits(n) ==
    IF n < 10 THEN <<DigitChars[n + 1]>>
    ELSE NatDigits(n \div 10) \o <<DigitChars[(n % 10) + 1]>>

RECURSIVE ZeroPad(_, _)
ZeroPad(digits, len) ==
    IF Len(digits) >= len THEN digits ELSE ZeroPad(<<"0">> \o digits, len)

\* Decimal::to_string: the mantissa's digits with the point before the last s
\* of them (zeros are put in front when there are not enough), and the sign.
\* The scale is kept: 91.00 prints as "91.00", not "91".
DecToString(d) ==
    LET digits == ZeroPad(NatDigits(Abs(d.m)), d.s + 1)
        n      == Len(digits)
        int    == SubSeq(digits, 1, n - d.s)
        frac   == SubSeq(digits, n - d.s + 1, n)
        body   == IF d.s = 0 THEN int ELSE int \o <<".">> \o frac
    IN  IF d.m < 0 THEN <<"-">> \o body ELSE body

RECURSIVE DigitsValue(_, _)
DigitsValue(digits, acc) ==
    IF digits = <<>> THEN acc
    ELSE DigitsValue(Tail(digits), 10 * acc + DigitVal(Head(digits)))

\* Decimal::from_str: an optional sign, digits, and an optional point followed
\* by digits; the scale is the number of digits after the point.
\* [ok |-> FALSE] is the Err of from_str.
DecFromStr(str) ==
    LET neg    == str # <<>> /\ str[1] = "-"
        body   == IF neg THEN Tail(str) ELSE str
        dots   == {i \in 1..Len(body) : body[i] = "."}
        dot    == IF dots = {} THEN Len(body) + 1
                  ELSE CHOOSE i \in dots : \A j \in dots : i <= j
        int    == SubSeq(body, 1, dot - 1)
        frac   == SubSeq(body, dot + 1, Len(body))
        digits == int \o frac
    IN  IF /\ digits # <<>>
           /\ Cardinality(dots) <= 1
           /\ \A i \in 1..Len(digits) : IsDigit(digits[i])
        THEN [ok |-> TRUE,
              value |-> [m |-> IF neg THEN -DigitsValue(digits, 0)
                               ELSE DigitsValue(digits, 0),
                         s |-> Len(frac)]]
        ELSE [ok |-> FALSE]


\* The bytes '-', '.', '0'..'9' in their byte order: String's Ord, which orders
\* the keys of a BTreeMap<String, _>.
CharRank(c) == IF c = "-" THEN 0 ELSE IF c = "." THEN 1 ELSE 2 + DigitVal(c)

RECURSIVE StrLess(_, _)
StrLess(a, b) ==
    IF a = <<>> THEN b # <<>>
    ELSE IF b = <<>> THEN FALSE
    ELSE IF Head(a) = Head(b) THEN StrLess(Tail(a), Tail(b))
    ELSE CharRank(Head(a)) < CharRank(Head(b))

\* The keys of a BTreeMap<String, _> in iteration order.
RECURSIVE SortedKeys(_)
SortedKeys(S) ==
    IF S = {} THEN <<>>
    ELSE LET k == CHOOSE k \in S : \A j \in S \ {k} : StrLess(k, j)
         IN  <<k>> \o SortedKeys(S \ {k})

(***************************************************************************)
(* HashMap / BTreeMap: a function whose domain is the set of keys present. *)
(***************************************************************************)
EmptyMap == <<>>

Put(f, k, v) == [x \in (DOMAIN f) \cup {k} |-> IF x = k THEN v ELSE f[x]]

Remove(f, k) == [x \in (DOMAIN f) \ {k} |-> f[x]]

\* The enumerations of a finite set: the orders a HashMap may iterate in.
RECURSIVE Orders(_)
Orders(S) ==
    IF S = {} THEN {<<>>}
    ELSE UNION {{<<e>> \o rest : rest \in Orders(S \ {e})} : e \in S}

\* The number of places of a Vec of order ids that hold order_id.
CountIds(ids, order_id) == Cardinality({i \in 1..Len(ids) : ids[i] = order_id})

\* The number of LiquidationEntry of a Vec that are of order_id.
CountEntries(entries, order_id) ==
    Cardinality({i \in 1..Len(entries) : entries[i].order_id = order_id})

(***************************************************************************)
(* Bounds of the model and the inputs it draws.                            *)
(***************************************************************************)

\* The number of entries the input stream delivers in a run.
MaxStream == 4

\* The number of times the process is stopped and started again.
MaxCrashes == 1

\* UserBalance.usd_balance of a user on first touch.
InitialUsd == 5000

\* last_processed_id of Processor::new: "$", the end of the stream.
Dollar == -1

\* The window of CREATE_ORDER's timestamp check, in seconds.
TimestampWindow == 5

Users == {"u1", "u2"}

OrderIds == {"o1", "o2"}

Assets == {"BTC"}

\* The (buyPrice, sellPrice) pairs of the LATEST_PRICE entries, as the decimal
\* strings of the wire.
PricePairs ==
    { <<NatDigits(100), NatDigits(100)>>,
      <<NatDigits(128), NatDigits(125)>>,
      <<NatDigits(80), NatDigits(80)>> }

PriceMsgs ==
    { [action |-> "LATEST_PRICE", symbol |-> a, buyPrice |-> p[1],
       sellPrice |-> p[2], decimals |-> 2] : a \in Assets, p \in PricePairs }

CreateMsgs ==
    { [action |-> "CREATE_ORDER", orderId |-> o, user |-> u, asset |-> a,
       type |-> t, margin |-> NatDigits(100), leverage |-> 10,
       timestamp |-> 0, age |-> 0] :
        o \in OrderIds, u \in Users, a \in Assets, t \in {"long", "short"} }
    \cup
    { [action |-> "CREATE_ORDER", orderId |-> "o2", user |-> "u1",
       asset |-> "BTC", type |-> "long", margin |-> NatDigits(6000),
       leverage |-> 10, timestamp |-> 0, age |-> 0] }

CloseMsgs == { [action |-> "CLOSE_ORDER", orderId |-> o] : o \in OrderIds }

\* The entries the input stream may deliver under Spec.
Messages == PriceMsgs \cup CreateMsgs \cup CloseMsgs

NoMsg == [action |-> "none"]

NoOrder == [order_id |-> "none"]

(***************************************************************************)
(* The state.                                                              *)
(***************************************************************************)
VARIABLES
    main_pc,            \* main: "load" (before load_snapshot), "run", "exit"
    users,              \* BalanceManager.users: user_id -> UserBalance
    orders_by_id,       \* BalanceManager.orders_by_id: order_id -> Order
    orders_by_user,     \* BalanceManager.orders_by_user: user_id -> [order_id]
    liquidation_map,    \* BalanceManager.liquidation_map: asset -> key -> [entry]
    asset_prices,       \* BalanceManager.asset_prices: symbol -> AssetPrice
    last_processed_id,  \* Processor.last_processed_id
    cmd_pc,             \* the command loop's position ("backoff": asleep after
                        \* a read_stream that failed)
    cmd_id,             \* the id of the entry the command loop is processing
    cmd_msg,            \* that entry's message
    cmd_order,          \* the order create_order is inserting
    cmd_result,         \* the result of create_order / close_order for cmd_msg
    published,          \* the responses published for the entry being processed
    db_queue,           \* the entries appended to db_queue for that entry
    scan_pc,            \* the scanner's position: "tick" or "liquidate"
    liquidated_orders,  \* the scanner's list of (order_id, user_id) still to liquidate
    liq_result,         \* the scanner's last liquidate_order call and its result
    missed,             \* the live orders whose trigger held at the scanner's
                        \* latest check_liquidations and which it did not list
    realized_pnl,       \* the pnl credited by closes minus the margin of liquidations
    applied,            \* the id of the last entry whose effects the tables hold
    snapshot_file,      \* snapshot.json
    saved_applied,      \* applied as it was when snapshot.json was written
    stream,             \* the input entries a restart would read again
    stream_base,        \* the id of the last entry before those of stream
    crashes,            \* the number of restarts so far
    publisher_ok,       \* whether RedisManager's publisher returns Ok
    locks               \* the table locks: each task's call, its place in it and
                        \* the locks it holds

tables == <<users, orders_by_id, orders_by_user, liquidation_map, asset_prices>>

cmd_vars == <<cmd_pc, cmd_id, cmd_msg, cmd_order, cmd_result, published, db_queue>>

scan_vars == <<scan_pc, liquidated_orders, liq_result, missed>>

env_vars == <<snapshot_file, saved_applied, stream, stream_base, crashes,
              publisher_ok, locks>>

vars == <<main_pc, tables, last_processed_id, cmd_vars, scan_vars, realized_pnl,
          applied, env_vars>>

(***************************************************************************)
(* BalanceManager (balance_manager.rs).                                    *)
(***************************************************************************)

\* The UserBalance get_or_create_user and create_order insert for a new user.
NewUser == [usd_balance |-> DecFromInt(InitialUsd), asset_balances |-> EmptyMap]

\* users.insert(user_id, ..): the user is set up anew even when present.
EnsureUserReset(us, user_id) == Put(us, user_id, NewUser)

\* users.entry(user_id).or_insert_with(..): the map with the user present.
EnsureUser(us, user_id) ==
    IF user_id \in DOMAIN us THEN us ELSE Put(us, user_id, NewUser)

\* BalanceManager::calculate_liquidation_price.
calculate_liquidation_price(order) ==
    LET liquidation_threshold ==
            DecDiv(DecFromInt(90), DecFromInt(order.leverage * 100))
    IN  IF order.order_type = "long"
        THEN DecMul(order.open_price, DecSub(DecFromInt(1), liquidation_threshold))
        ELSE DecMul(order.open_price, DecAdd(DecFromInt(1), liquidation_threshold))

\* A pnl that takes every order for a long.
calculate_pnl_long(order, current_price) ==
    DecMul(DecSub(current_price, order.open_price), order.quantity)

\* BalanceManager::calculate_pnl.
calculate_pnl(order, current_price) ==
    IF order.order_type = "long"
    THEN DecMul(DecSub(current_price, order.open_price), order.quantity)
    ELSE DecMul(DecSub(order.open_price, current_price), order.quantity)

\* The price create_order would take with the two sides exchanged.
OpenPriceSwapped(price_info, order_type) ==
    IF order_type = "long" THEN price_info.sell_price ELSE price_info.buy_price

\* create_order's price: buy_price for a long, sell_price for anything else.
OpenPrice(price_info, order_type) ==
    IF order_type = "long" THEN price_info.buy_price ELSE price_info.sell_price

\* close_order's price: sell_price for a long, buy_price for anything else.
ClosePrice(price_info, order_type) ==
    IF order_type = "long" THEN price_info.sell_price ELSE price_info.buy_price

\* A lookup that leaves the order in the table.
KeepOrder(obi, order_id) == obi

\* close_order / liquidate_order: orders_by_id.remove(order_id), the table it
\* leaves.
TakeOrder(obi, order_id) == Remove(obi, order_id)

\* orders_by_user.entry(user_id).or_insert_with(Vec::new).push(order_id).
PushUserOrder(obu, user_id, order_id) ==
    Put(obu, user_id,
        Append(IF user_id \in DOMAIN obu THEN obu[user_id] ELSE <<>>, order_id))

\* liquidation_map.entry(asset).or_insert_with(BTreeMap::new)
\*     .entry(price_key).or_insert_with(Vec::new).push(entry).
PushLiquidation(lm, asset, price_key, entry) ==
    LET asset_liquidations == IF asset \in DOMAIN lm THEN lm[asset] ELSE EmptyMap
        entries == IF price_key \in DOMAIN asset_liquidations
                   THEN asset_liquidations[price_key] ELSE <<>>
    IN  Put(lm, asset, Put(asset_liquidations, price_key, Append(entries, entry)))

\* The LiquidationEntry of an order.
LiquidationEntryOf(order, liquidation_price) ==
    [order_id |-> order.order_id, user_id |-> order.user_id,
     liquidation_price |-> liquidation_price]

\* The removal from a user's list that leaves an empty list in the table.
RemoveUserOrderKeepEmpty(obu, order, order_id) ==
    IF order.user_id \in DOMAIN obu
    THEN Put(obu, order.user_id,
             SelectSeq(obu[order.user_id], LAMBDA id : id # order_id))
    ELSE obu

\* close_order / liquidate_order: the order's id is dropped from its user's
\* list, and the list is removed when it is left empty.
RemoveUserOrder(obu, order, order_id) ==
    IF order.user_id \in DOMAIN obu
    THEN LET user_orders == SelectSeq(obu[order.user_id], LAMBDA id : id # order_id)
         IN  IF user_orders = <<>> THEN Remove(obu, order.user_id)
             ELSE Put(obu, order.user_id, user_orders)
    ELSE obu

\* close_order / liquidate_order: the entries of the order's id are dropped from
\* the bucket under the key of the liquidation price recomputed from the order;
\* an empty bucket and an empty asset map are removed.
RemoveLiquidation(lm, order, order_id) ==
    IF order.asset \in DOMAIN lm
    THEN LET asset_liquidations == lm[order.asset]
             price_key == DecToString(calculate_liquidation_price(order))
             after ==
                 IF price_key \in DOMAIN asset_liquidations
                 THEN LET entries == SelectSeq(asset_liquidations[price_key],
                                               LAMBDA e : e.order_id # order_id)
                      IN  IF entries = <<>>
                          THEN Remove(asset_liquidations, price_key)
                          ELSE Put(asset_liquidations, price_key, entries)
                 ELSE asset_liquidations
         IN  IF DOMAIN after = {} THEN Remove(lm, order.asset)
             ELSE Put(lm, order.asset, after)
    ELSE lm

\* BalanceManager::check_liquidations, with `order` the order in which the
\* HashMap iterates over the assets and `unread` the buckets, as (asset, key)
\* pairs, for which every try_read of orders_by_id fails. A bucket is listed
\* whole when one of its entries is of a live order whose side's trigger holds
\* for the bucket's key at the mid price.
RECURSIVE ScanBuckets(_, _, _, _)
ScanBuckets(asset, keys, current_price, unread) ==
    IF keys = <<>> THEN <<>>
    ELSE LET price_key == Head(keys)
             entries   == liquidation_map[asset][price_key]
             parsed    == DecFromStr(price_key)
             should_liquidate ==
                 /\ parsed.ok
                 /\ <<asset, price_key>> \notin unread
                 /\ \E i \in 1..Len(entries) :
                       /\ entries[i].order_id \in DOMAIN orders_by_id
                       /\ IF orders_by_id[entries[i].order_id].order_type = "long"
                          THEN DecLe(current_price, parsed.value)
                          ELSE DecGe(current_price, parsed.value)
             listed == IF should_liquidate
                       THEN [i \in 1..Len(entries) |->
                                <<entries[i].order_id, entries[i].user_id>>]
                       ELSE <<>>
         IN  listed \o ScanBuckets(asset, Tail(keys), current_price, unread)

RECURSIVE check_liquidations(_, _)
check_liquidations(order, unread) ==
    IF order = <<>> THEN <<>>
    ELSE LET asset == Head(order)
             found ==
                 IF asset \in DOMAIN asset_prices
                 THEN LET price_info == asset_prices[asset]
                          current_price ==
                              DecDiv(DecAdd(price_info.buy_price, price_info.sell_price),
                                     DecFromInt(2))
                      IN  ScanBuckets(asset, SortedKeys(DOMAIN liquidation_map[asset]),
                                      current_price, unread)
                 ELSE <<>>
         IN  found \o check_liquidations(Tail(order), unread)

(***************************************************************************)
(* The input stream "orders". An entry's id is its position; the entries a *)
(* restart could read again (those after the offset of snapshot.json, or   *)
(* after last_processed_id when the file holds no offset) are kept in      *)
(* stream, the entries before them are not.                                *)
(***************************************************************************)
StreamEnd == stream_base + Len(stream)

\* The position a read with last_id starts after: "$" is the end of the stream.
ReadPos(last_id) == IF last_id = Dollar THEN StreamEnd ELSE last_id

\* last_processed_id as snapshot.json holds it, Dollar when it holds none.
FileOffset(file) ==
    IF file.kind = "json" /\ "last_processed_id" \in DOMAIN file.body
    THEN file.body["last_processed_id"] ELSE Dollar

\* The entries kept once the file is `file` and last_processed_id is last_id.
TrimStream(file, last_id) ==
    LET floor == IF FileOffset(file) # Dollar THEN FileOffset(file)
                 ELSE ReadPos(last_id)
    IN  IF floor > stream_base
        THEN [stream |-> SubSeq(stream, floor - stream_base + 1, Len(stream)),
              base |-> floor]
        ELSE [stream |-> stream, base |-> stream_base]

(***************************************************************************)
(* Processor::process_message (processor.rs), up to the first point where  *)
(* another task may run between two of its writes.                         *)
(***************************************************************************)

\* RedisManager's publisher(channel, data): the response goes out on the
\* channel, or publisher returns Err and nothing goes out.
Publish(pub, channel, action, data) ==
    IF publisher_ok
    THEN Append(pub, [channel |-> channel, action |-> action, data |-> data])
    ELSE pub

\* RedisManager's add_to_stream(stream, data): the entry is appended.
AddToStream(queue, data) == Append(queue, data)

\* get_string_field, get_decimal_field, get_u32_field, get_i64_field: Ok for
\* every one of `fields` only when the message has them all.
HasFields(data, fields) == fields \subseteq DOMAIN data

\* The "data" of an ORDER_FAILED response.
OrderFailed(order_id, message) == [orderId |-> order_id, message |-> message]

\* An update_price that keeps no entry but the one it writes.
ProcessLatestPriceOnly(msg) ==
    LET buy_price  == DecFromStr(msg.buyPrice)
        sell_price == DecFromStr(msg.sellPrice)
    IN  /\ asset_prices' =
              IF /\ HasFields(msg, {"symbol", "buyPrice", "sellPrice", "decimals"})
                 /\ buy_price.ok /\ sell_price.ok
              THEN Put(EmptyMap, msg.symbol,
                       [symbol |-> msg.symbol, buy_price |-> buy_price.value,
                        sell_price |-> sell_price.value, decimals |-> msg.decimals])
              ELSE asset_prices
        /\ cmd_pc' = "update_id"
        /\ cmd_result' = "none"
        /\ UNCHANGED <<main_pc, users, orders_by_id, orders_by_user, liquidation_map,
                       cmd_order, published, db_queue, realized_pnl>>

\* "LATEST_PRICE": update_price, unless a field is missing or does not parse.
ProcessLatestPrice(msg) ==
    LET buy_price  == DecFromStr(msg.buyPrice)
        sell_price == DecFromStr(msg.sellPrice)
    IN  /\ asset_prices' =
              IF /\ HasFields(msg, {"symbol", "buyPrice", "sellPrice", "decimals"})
                 /\ buy_price.ok /\ sell_price.ok
              THEN Put(asset_prices, msg.symbol,
                       [symbol |-> msg.symbol, buy_price |-> buy_price.value,
                        sell_price |-> sell_price.value, decimals |-> msg.decimals])
              ELSE asset_prices
        /\ cmd_pc' = "update_id"
        /\ cmd_result' = "none"
        /\ UNCHANGED <<main_pc, users, orders_by_id, orders_by_user, liquidation_map,
                       cmd_order, published, db_queue, realized_pnl>>

\* An Order stored under a user other than the one create_order has created
\* and debited.
NewOrderOfNobody(msg, margin, current_price) ==
    [order_id |-> msg.orderId, user_id |-> "nobody", asset |-> msg.asset,
     order_type |-> msg.type, margin |-> margin, leverage |-> msg.leverage,
     open_price |-> current_price,
     quantity |-> DecDiv(DecMul(margin, DecFromInt(msg.leverage)), current_price),
     timestamp |-> msg.timestamp]

\* The Order create_order stores for msg at price current_price.
NewOrder(msg, margin, current_price) ==
    [order_id |-> msg.orderId, user_id |-> msg.user, asset |-> msg.asset,
     order_type |-> msg.type, margin |-> margin, leverage |-> msg.leverage,
     open_price |-> current_price,
     quantity |-> DecDiv(DecMul(margin, DecFromInt(msg.leverage)), current_price),
     timestamp |-> msg.timestamp]

\* The balance create_order leaves a user with.
DebitMargin(balance, required_margin) == DecSub(balance, required_margin)

\* A check of the balance that lets every margin through.
AnyMarginAllowed(balance, required_margin) == FALSE

\* create_order's check: user_balance.usd_balance < required_margin.
InsufficientBalance(balance, required_margin) == DecLt(balance, required_margin)

\* A check of the timestamp that forgets .abs().
TimestampInPast(age) == age > TimestampWindow

\* handle_create_order's check of the timestamp, with age = current_time -
\* timestamp.
TimestampTooOld(age) == Abs(age) > TimestampWindow

\* The error handle_create_order returns with `?` before it does anything
\* else, "none" when every field is read.
CreateInputError(msg) ==
    IF ~HasFields(msg, {"orderId", "user", "asset", "type", "margin", "leverage",
                        "timestamp"})
    THEN "Missing or invalid field"
    ELSE IF ~DecFromStr(msg.margin).ok THEN "Invalid decimal"
    ELSE "none"

\* "CREATE_ORDER": handle_create_order and create_order up to the insert into
\* orders_by_id. create_order holds users.write() until it returns; it takes
\* and releases the write locks of orders_by_id, orders_by_user and
\* liquidation_map one after the other, so the scanner may run between them.
ProcessCreateOrder(msg) ==
    LET margin == DecFromStr(msg.margin)
        fail(result, us) ==
            /\ users' = us
            /\ cmd_result' = result
            /\ published' = Publish(published, msg.orderId, "ORDER_FAILED",
                                    OrderFailed(msg.orderId, result))
            /\ cmd_pc' = "update_id"
            /\ UNCHANGED <<main_pc, orders_by_id, cmd_order>>
    IN  /\ UNCHANGED <<orders_by_user, liquidation_map, asset_prices, realized_pnl,
                       db_queue>>
        /\ IF CreateInputError(msg) # "none"
           THEN \* process_message returns the error: nothing is published
                /\ cmd_result' = CreateInputError(msg)
                /\ cmd_pc' = "update_id"
                /\ UNCHANGED <<main_pc, users, orders_by_id, cmd_order, published>>
           ELSE IF TimestampTooOld(msg.age)
           THEN fail("Order rejected: timestamp too old", users)
           ELSE LET ensured == EnsureUser(users, msg.user) IN
                IF InsufficientBalance(ensured[msg.user].usd_balance, margin.value)
                THEN fail("Insufficient balance", ensured)
                ELSE IF msg.asset \notin DOMAIN asset_prices
                THEN fail("Asset price not available", ensured)
                ELSE LET current_price ==
                             OpenPrice(asset_prices[msg.asset], msg.type) IN
                     IF current_price.m = 0 \/ msg.leverage = 0
                     THEN \* the division panics: the process dies
                          /\ main_pc' = "exit"
                          /\ users' = ensured
                          /\ cmd_result' = "panic"
                          /\ UNCHANGED <<orders_by_id, cmd_order, cmd_pc, published>>
                     ELSE LET order == NewOrder(msg, margin.value, current_price) IN
                          /\ users' = [ensured EXCEPT ![msg.user].usd_balance =
                                          DebitMargin(@, margin.value)]
                          /\ orders_by_id' = Put(orders_by_id, order.order_id, order)
                          /\ cmd_order' = order
                          /\ cmd_result' = "none"
                          /\ cmd_pc' = "create_by_user"
                          /\ UNCHANGED <<main_pc, published>>

\* The amount close_order credits.
CloseAmount(order, current_price) ==
    DecAdd(order.margin, calculate_pnl(order, current_price))

\* An append to db_queue whatever close_order returned.
DbQueueDataAlways(order_id, result, pnl, close_price) ==
    <<[action |-> "SAVE_CLOSED_ORDER", orderId |-> order_id, pnl |-> pnl,
       closePrice |-> close_price]>>

\* handle_close_order: the SAVE_CLOSED_ORDER entries it appends to db_queue:
\* one when close_order returned Ok and the response was published, none when
\* close_order returned an error or publisher did (`return Err(e)` comes
\* before the append).
DbQueueData(order_id, result, pnl, close_price) ==
    IF result = "ok" /\ publisher_ok
    THEN <<[action |-> "SAVE_CLOSED_ORDER", orderId |-> order_id, pnl |-> pnl,
            closePrice |-> close_price]>>
    ELSE <<>>

\* handle_close_order after close_order has returned `result`: ORDER_SUCCESS
\* with the pnl and the close price, or ORDER_FAILED with the error, on the
\* channel of the order id, and the append to db_queue.
RespondClose(order_id, result, pnl, close_price) ==
    /\ published' =
           IF result = "ok"
           THEN Publish(published, order_id, "ORDER_SUCCESS",
                        [orderId |-> order_id, pnl |-> pnl,
                         message |-> "Order closed at price",
                         close_price |-> close_price])
           ELSE Publish(published, order_id, "ORDER_FAILED",
                        OrderFailed(order_id, result))
    /\ db_queue' = db_queue \o DbQueueData(order_id, result, pnl, close_price)
    /\ cmd_result' = result

\* "CLOSE_ORDER": handle_close_order and close_order, which holds the write
\* locks of all four tables from before its first read to its return.
ProcessCloseOrder(msg) ==
    /\ cmd_pc' = "update_id"
    /\ UNCHANGED <<main_pc, asset_prices, cmd_order>>
    /\ IF ~HasFields(msg, {"orderId"})
       THEN \* process_message returns the error: nothing is published
            /\ cmd_result' = "Missing or invalid field"
            /\ UNCHANGED <<users, orders_by_id, orders_by_user, liquidation_map,
                           realized_pnl, published, db_queue>>
       ELSE LET order_id == msg.orderId IN
       IF order_id \notin DOMAIN orders_by_id
       THEN /\ RespondClose(order_id, "Order not found", <<>>, <<>>)
            /\ UNCHANGED <<users, orders_by_id, orders_by_user, liquidation_map,
                           realized_pnl>>
       ELSE LET order == orders_by_id[order_id] IN
            /\ orders_by_id' = TakeOrder(orders_by_id, order_id)
            /\ orders_by_user' = RemoveUserOrder(orders_by_user, order, order_id)
            /\ liquidation_map' = RemoveLiquidation(liquidation_map, order, order_id)
            /\ IF order.user_id \notin DOMAIN users
               THEN /\ RespondClose(order_id, "User not found", <<>>, <<>>)
                    /\ UNCHANGED <<users, realized_pnl>>
               ELSE IF order.asset \notin DOMAIN asset_prices
               THEN /\ RespondClose(order_id, "Asset price not available", <<>>, <<>>)
                    /\ UNCHANGED <<users, realized_pnl>>
               ELSE LET current_price ==
                            ClosePrice(asset_prices[order.asset], order.order_type)
                        pnl == calculate_pnl(order, current_price)
                    IN  /\ users' = [users EXCEPT ![order.user_id].usd_balance =
                                        DecAdd(@, CloseAmount(order, current_price))]
                        /\ realized_pnl' = DecAdd(realized_pnl, pnl)
                        /\ RespondClose(order_id, "ok", DecToString(pnl),
                                        DecToString(current_price))

\* BalanceManager::get_user_orders: the orders of orders_by_id that the user's
\* list names.
get_user_orders(user_id) ==
    IF user_id \in DOMAIN orders_by_user
    THEN LET found == SelectSeq(orders_by_user[user_id],
                                LAMBDA id : id \in DOMAIN orders_by_id)
         IN  [i \in 1..Len(found) |-> orders_by_id[found[i]]]
    ELSE <<>>

\* handle_get_balance_usd, handle_get_balance, handle_get_supported_assets and
\* handle_get_orders: the fields are read, the user is created when the action
\* names one, and one response is published on the channel of orderId.
ProcessQuery(msg) ==
    LET with_user == msg.action # "GET_SUPPORTED_ASSETS"
        fields    == IF with_user THEN {"user", "orderId"} ELSE {"orderId"}
        ensured   == IF with_user THEN EnsureUser(users, msg.user) ELSE users
    IN  /\ cmd_pc' = "update_id"
        /\ UNCHANGED <<main_pc, orders_by_id, orders_by_user, liquidation_map,
                       asset_prices, cmd_order, db_queue, realized_pnl>>
        /\ IF ~HasFields(msg, fields)
           THEN \* process_message returns the error: nothing is published
                /\ cmd_result' = "Missing or invalid field"
                /\ UNCHANGED <<users, published>>
           ELSE /\ users' = ensured
                /\ cmd_result' = "ok"
                /\ published' =
                     CASE msg.action = "GET_BALANCE_USD" ->
                            Publish(published, msg.orderId, "BALANCE_USD",
                                    [balance |->
                                        DecToString(ensured[msg.user].usd_balance)])
                       [] msg.action = "GET_BALANCE" ->
                            Publish(published, msg.orderId, "BALANCE",
                                    ensured[msg.user].asset_balances)
                       [] msg.action = "GET_SUPPORTED_ASSETS" ->
                            Publish(published, msg.orderId, "SUPPORTED_ASSETS",
                                    [assets |-> <<"BTC", "ETH", "SOL">>])
                       [] msg.action = "GET_ORDERS" ->
                            Publish(published, msg.orderId, "ORDERS",
                                    [orders |-> get_user_orders(msg.user)])

\* The actions process_message answers with a query handler.
QueryActions == {"GET_BALANCE_USD", "GET_BALANCE", "GET_SUPPORTED_ASSETS",
                 "GET_ORDERS"}

\* process_message's match on the action; a message without one is an error,
\* an action it does not know is a warning.
ProcessMessage(msg) ==
    CASE msg.action = "LATEST_PRICE" -> ProcessLatestPrice(msg)
      [] msg.action = "CREATE_ORDER" -> ProcessCreateOrder(msg)
      [] msg.action = "CLOSE_ORDER"  -> ProcessCloseOrder(msg)
      [] msg.action \in QueryActions -> ProcessQuery(msg)
      [] OTHER -> /\ cmd_pc' = "update_id"
                  /\ cmd_result' = "none"
                  /\ UNCHANGED <<main_pc, tables, cmd_order, published, db_queue,
                                 realized_pnl>>

\* An entry as process_message sees it when it is read again after a restart:
\* the clock has moved on, and a CREATE_ORDER may by then be older than the
\* window of the timestamp check.
ReadAgain(msg) ==
    IF msg.action = "CREATE_ORDER"
    THEN {msg, [msg EXCEPT !.age = TimestampWindow + 1]}
    ELSE {msg}

\* start_processing: the next entry after last_processed_id is read (one that
\* was delivered before a restart, or a new one drawn from msgs) and handed to
\* process_message.
CmdRead(msgs) ==
    /\ main_pc = "run"
    /\ cmd_pc = "read"
    /\ LET pos == ReadPos(last_processed_id) IN
       \E msg \in IF pos < StreamEnd THEN ReadAgain(stream[pos - stream_base + 1])
                  ELSE IF StreamEnd < MaxStream THEN msgs ELSE {} :
          /\ cmd_id' = pos + 1
          /\ cmd_msg' = msg
          /\ applied' = pos + 1
          /\ stream' = IF pos < StreamEnd THEN stream ELSE Append(stream, msg)
          /\ ProcessMessage(msg)
    /\ UNCHANGED <<last_processed_id, scan_vars, snapshot_file, saved_applied,
                   stream_base, crashes, publisher_ok, locks>>

\* create_order: the push onto the user's list in orders_by_user.
CmdCreateByUser ==
    /\ main_pc = "run"
    /\ cmd_pc = "create_by_user"
    /\ orders_by_user' =
           PushUserOrder(orders_by_user, cmd_order.user_id, cmd_order.order_id)
    /\ cmd_pc' = "create_liquidation"
    /\ UNCHANGED <<main_pc, users, orders_by_id, liquidation_map, asset_prices,
                   last_processed_id, cmd_id, cmd_msg, cmd_order, cmd_result,
                   published, db_queue, scan_vars, realized_pnl, applied,
                   env_vars>>

\* create_order: the push of the LiquidationEntry under the key that is the
\* liquidation price's string, the return to handle_create_order and its
\* ORDER_SUCCESS response.
CmdCreateLiquidation ==
    /\ main_pc = "run"
    /\ cmd_pc = "create_liquidation"
    /\ LET liquidation_price == calculate_liquidation_price(cmd_order)
       IN  liquidation_map' =
               PushLiquidation(liquidation_map, cmd_order.asset,
                               DecToString(liquidation_price),
                               LiquidationEntryOf(cmd_order, liquidation_price))
    /\ cmd_result' = "ok"
    /\ published' = Publish(published, cmd_order.order_id, "ORDER_SUCCESS",
                            [orderId |-> cmd_order.order_id,
                             message |-> "Order created successfully"])
    /\ cmd_order' = NoOrder
    /\ cmd_pc' = "update_id"
    /\ UNCHANGED <<main_pc, users, orders_by_id, orders_by_user, asset_prices,
                   last_processed_id, cmd_id, cmd_msg, db_queue, scan_vars,
                   realized_pnl, applied, env_vars>>

\* The command loop is between two writes of a create_order, which holds
\* users.write().
InCreateOrder == cmd_pc \in {"create_by_user", "create_liquidation"}

\* start_processing without the write of last_processed_id.
CmdSkipUpdateId ==
    /\ main_pc = "run"
    /\ cmd_pc = "update_id"
    /\ last_processed_id' = last_processed_id
    /\ cmd_pc' = "read"
    /\ cmd_msg' = NoMsg
    /\ cmd_result' = "none"
    /\ published' = <<>>
    /\ db_queue' = <<>>
    /\ LET kept == TrimStream(snapshot_file, cmd_id)
       IN  stream' = kept.stream /\ stream_base' = kept.base
    /\ UNCHANGED <<main_pc, tables, cmd_id, cmd_order, scan_vars, realized_pnl,
                   applied, snapshot_file, saved_applied, crashes, publisher_ok, locks>>

\* start_processing: last_processed_id is set to the entry's id, whatever
\* process_message returned.
CmdUpdateId ==
    /\ main_pc = "run"
    /\ cmd_pc = "update_id"
    /\ last_processed_id' = cmd_id
    /\ cmd_pc' = "read"
    /\ cmd_msg' = NoMsg
    /\ cmd_result' = "none"
    /\ published' = <<>>
    /\ db_queue' = <<>>
    /\ LET kept == TrimStream(snapshot_file, cmd_id)
       IN  stream' = kept.stream /\ stream_base' = kept.base
    /\ UNCHANGED <<main_pc, tables, cmd_id, cmd_order, scan_vars, realized_pnl,
                   applied, snapshot_file, saved_applied, crashes, publisher_ok, locks>>

(***************************************************************************)
(* The liquidation scanner (main.rs, the second spawned task).             *)
(***************************************************************************)

\* A liquidate_order that finds no order.
LiquidateOrderNotFound(order_id) ==
    /\ liq_result' = [order_id |-> order_id, result |-> "Order not found"]
    /\ UNCHANGED <<orders_by_id, orders_by_user, liquidation_map, realized_pnl>>

\* liquidate_order, which holds the write locks of orders_by_id,
\* orders_by_user and liquidation_map from before its first read.
LiquidateOrder(order_id) ==
    IF order_id \notin DOMAIN orders_by_id
    THEN /\ liq_result' = [order_id |-> order_id, result |-> "Order not found"]
         /\ UNCHANGED <<orders_by_id, orders_by_user, liquidation_map, realized_pnl>>
    ELSE LET order == orders_by_id[order_id] IN
         /\ orders_by_id' = TakeOrder(orders_by_id, order_id)
         /\ orders_by_user' = RemoveUserOrder(orders_by_user, order, order_id)
         /\ liquidation_map' = RemoveLiquidation(liquidation_map, order, order_id)
         /\ realized_pnl' = DecSub(realized_pnl, order.margin)
         /\ liq_result' = [order_id |-> order_id, result |-> "ok"]

\* Whether a try_read of orders_by_id may fail during a scan: the command loop
\* is between two commands and may start a create_order or close_order, which
\* waits for or holds orders_by_id.write(). Inside create_order, after the
\* insert, the command loop asks for no lock of orders_by_id.
TryReadMayFail == cmd_pc \in {"read", "update_id"}

\* The trigger at the mid price, for an order and the liquidation price
\* computed from it: mid <= L for a long, mid >= L for a short.
TriggerHolds(order) ==
    /\ order.asset \in DOMAIN asset_prices
    /\ LET price_info == asset_prices[order.asset]
           mid == DecDiv(DecAdd(price_info.buy_price, price_info.sell_price),
                         DecFromInt(2))
           L   == calculate_liquidation_price(order)
       IN  IF order.order_type = "long" THEN DecLe(mid, L) ELSE DecGe(mid, L)

\* The order ids a list of (order_id, user_id) pairs names.
ListedIds(list) == {list[i][1] : i \in 1..Len(list)}

AllBuckets ==
    {<<a, k>> : a \in DOMAIN liquidation_map,
                k \in UNION {DOMAIN liquidation_map[b] : b \in DOMAIN liquidation_map}}

\* A tick: check_liquidations under liquidation_map.read() and
\* asset_prices.read().
ScanTick ==
    /\ main_pc = "run"
    /\ scan_pc = "tick"
    /\ \E order \in Orders(DOMAIN liquidation_map) :
       \E unread \in IF TryReadMayFail THEN SUBSET AllBuckets ELSE {{}} :
          LET found == check_liquidations(order, unread)
          IN  /\ liquidated_orders' = found
              /\ scan_pc' = IF found = <<>> THEN "tick" ELSE "liquidate"
              /\ missed' = {o \in DOMAIN orders_by_id : TriggerHolds(orders_by_id[o])}
                               \ ListedIds(found)
    /\ UNCHANGED <<main_pc, tables, last_processed_id, cmd_vars, liq_result,
                   realized_pnl, applied, env_vars>>

\* A liquidation that returns the margin to the user.
ScanLiquidateRefund ==
    /\ main_pc = "run"
    /\ scan_pc = "liquidate"
    /\ LiquidateOrder(Head(liquidated_orders)[1])
    /\ liquidated_orders' = Tail(liquidated_orders)
    /\ scan_pc' = IF Tail(liquidated_orders) = <<>> THEN "tick" ELSE "liquidate"
    /\ UNCHANGED <<main_pc, asset_prices, last_processed_id, cmd_vars,
                   missed, applied, env_vars>>
    /\ users' =
           LET order_id == Head(liquidated_orders)[1] IN
           IF order_id \in DOMAIN orders_by_id
              /\ orders_by_id[order_id].user_id \in DOMAIN users
           THEN [users EXCEPT ![orders_by_id[order_id].user_id].usd_balance =
                    DecAdd(@, orders_by_id[order_id].margin)]
           ELSE users

\* The scanner's loop over the list: liquidate_order for its next element.
ScanLiquidate ==
    /\ main_pc = "run"
    /\ scan_pc = "liquidate"
    /\ LiquidateOrder(Head(liquidated_orders)[1])
    /\ liquidated_orders' = Tail(liquidated_orders)
    /\ scan_pc' = IF Tail(liquidated_orders) = <<>> THEN "tick" ELSE "liquidate"
    /\ UNCHANGED <<main_pc, users, asset_prices, last_processed_id, cmd_vars,
                   missed, applied, env_vars>>

(***************************************************************************)
(* snapshot.json (processor.rs: save_snapshot, load_snapshot). A file is   *)
(* absent, not JSON, or JSON: then body is the object, a function of its   *)
(* keys. serde writes a Decimal as its string and reads it back with       *)
(* from_str.                                                               *)
(***************************************************************************)
UserToJson(user) ==
    [usd_balance |-> DecToString(user.usd_balance),
     asset_balances |-> user.asset_balances]

OrderToJson(order) ==
    [order EXCEPT !.margin = DecToString(@), !.open_price = DecToString(@),
                  !.quantity = DecToString(@)]

EntryToJson(entry) == [entry EXCEPT !.liquidation_price = DecToString(@)]

PriceToJson(price) ==
    [price EXCEPT !.buy_price = DecToString(@), !.sell_price = DecToString(@)]

\* A snapshot that leaves out the liquidation map.
SnapshotJsonNoLiquidation ==
    [users |-> [u \in DOMAIN users |-> UserToJson(users[u])],
     orders_by_id |-> [o \in DOMAIN orders_by_id |-> OrderToJson(orders_by_id[o])],
     orders_by_user |-> orders_by_user,
     prices |-> [a \in DOMAIN asset_prices |-> PriceToJson(asset_prices[a])],
     last_processed_id |-> last_processed_id,
     timestamp |-> 0]

\* save_snapshot's json!({..}) of the five tables and last_processed_id.
SnapshotJson ==
    [users |-> [u \in DOMAIN users |-> UserToJson(users[u])],
     orders_by_id |-> [o \in DOMAIN orders_by_id |-> OrderToJson(orders_by_id[o])],
     orders_by_user |-> orders_by_user,
     liquidation_map |->
         [a \in DOMAIN liquidation_map |->
             [k \in DOMAIN liquidation_map[a] |->
                 [i \in 1..Len(liquidation_map[a][k]) |->
                     EntryToJson(liquidation_map[a][k][i])]]],
     prices |-> [a \in DOMAIN asset_prices |-> PriceToJson(asset_prices[a])],
     last_processed_id |-> last_processed_id,
     timestamp |-> 0]

\* serde_json::from_value of one value: [ok |-> FALSE] when a Decimal of it
\* does not parse.
UserFromJson(j) ==
    LET usd_balance == DecFromStr(j.usd_balance)
    IN  IF usd_balance.ok
        THEN [ok |-> TRUE,
              value |-> [usd_balance |-> usd_balance.value,
                         asset_balances |-> j.asset_balances]]
        ELSE [ok |-> FALSE]

OrderFromJson(j) ==
    LET margin     == DecFromStr(j.margin)
        open_price == DecFromStr(j.open_price)
        quantity   == DecFromStr(j.quantity)
    IN  IF margin.ok /\ open_price.ok /\ quantity.ok
        THEN [ok |-> TRUE,
              value |-> [j EXCEPT !.margin = margin.value,
                                  !.open_price = open_price.value,
                                  !.quantity = quantity.value]]
        ELSE [ok |-> FALSE]

EntryFromJson(j) ==
    LET liquidation_price == DecFromStr(j.liquidation_price)
    IN  IF liquidation_price.ok
        THEN [ok |-> TRUE,
              value |-> [j EXCEPT !.liquidation_price = liquidation_price.value]]
        ELSE [ok |-> FALSE]

PriceFromJson(j) ==
    LET buy_price  == DecFromStr(j.buy_price)
        sell_price == DecFromStr(j.sell_price)
    IN  IF buy_price.ok /\ sell_price.ok
        THEN [ok |-> TRUE,
              value |-> [j EXCEPT !.buy_price = buy_price.value,
                                  !.sell_price = sell_price.value]]
        ELSE [ok |-> FALSE]

\* from_value of a HashMap or a Vec from the results for its values: Err when
\* one of them is, else the map or the Vec of the values.
Collect(parsed) ==
    IF \A k \in DOMAIN parsed : parsed[k].ok
    THEN [ok |-> TRUE, value |-> [k \in DOMAIN parsed |-> parsed[k].value]]
    ELSE [ok |-> FALSE]

\* from_value::<HashMap<String, UserBalance>>.
UsersFromJson(j) == Collect([u \in DOMAIN j |-> UserFromJson(j[u])])

\* from_value::<HashMap<String, Order>>.
OrdersByIdFromJson(j) == Collect([o \in DOMAIN j |-> OrderFromJson(j[o])])

\* from_value::<Vec<LiquidationEntry>>.
EntriesFromJson(j) == Collect([i \in DOMAIN j |-> EntryFromJson(j[i])])

\* from_value::<BTreeMap<String, Vec<LiquidationEntry>>>.
BucketsFromJson(j) == Collect([k \in DOMAIN j |-> EntriesFromJson(j[k])])

\* from_value::<HashMap<String, BTreeMap<String, Vec<LiquidationEntry>>>>.
LiquidationMapFromJson(j) == Collect([a \in DOMAIN j |-> BucketsFromJson(j[a])])

\* from_value::<Vec<Order>>.
OrdersFromJson(j) == Collect([i \in DOMAIN j |-> OrderFromJson(j[i])])

\* from_value::<HashMap<String, Vec<Order>>>.
OldOrdersFromJson(j) == Collect([u \in DOMAIN j |-> OrdersFromJson(j[u])])

\* from_value::<HashMap<String, AssetPrice>>.
PricesFromJson(j) == Collect([a \in DOMAIN j |-> PriceFromJson(j[a])])

\* The state of a new BalanceManager and a new Processor.
FreshState ==
    [users |-> EmptyMap, orders_by_id |-> EmptyMap, orders_by_user |-> EmptyMap,
     liquidation_map |-> EmptyMap, asset_prices |-> EmptyMap,
     last_processed_id |-> Dollar]

\* A liquidation price that leaves the threshold out.
Processor_liquidation_price_flat(order) == order.open_price

\* Processor::calculate_liquidation_price, the copy load_snapshot calls.
Processor_calculate_liquidation_price(order) ==
    LET liquidation_threshold ==
            DecDiv(DecFromInt(90), DecFromInt(order.leverage * 100))
    IN  IF order.order_type = "long"
        THEN DecMul(order.open_price, DecSub(DecFromInt(1), liquidation_threshold))
        ELSE DecMul(order.open_price, DecAdd(DecFromInt(1), liquidation_threshold))

\* load_snapshot's loop over the orders of the old format: each is put in
\* orders_by_id, pushed onto its user's list and pushed into liquidation_map.
RECURSIVE ConvertOldOrders(_, _)
ConvertOldOrders(state, old_orders) ==
    IF old_orders = <<>> THEN state
    ELSE LET order == Head(old_orders)
             liquidation_price == Processor_calculate_liquidation_price(order)
         IN  ConvertOldOrders(
                 [state EXCEPT
                     !.orders_by_id = Put(@, order.order_id, order),
                     !.orders_by_user = PushUserOrder(@, order.user_id, order.order_id),
                     !.liquidation_map =
                         PushLiquidation(@, order.asset, DecToString(liquidation_price),
                                         LiquidationEntryOf(order, liquidation_price))],
                 Tail(old_orders))

\* The keys of the old format's `orders`, over which load_snapshot iterates in
\* the HashMap's order.
LegacyUsers(body) ==
    IF "orders" \in DOMAIN body /\ OldOrdersFromJson(body.orders).ok
    THEN DOMAIN body.orders ELSE {}

\* The old format's orders in the order load_snapshot meets them when the
\* HashMap iterates over its keys in `order`.
RECURSIVE OldOrdersIn(_, _)
OldOrdersIn(old_orders_map, order) ==
    IF order = <<>> THEN <<>>
    ELSE old_orders_map[Head(order)] \o OldOrdersIn(old_orders_map, Tail(order))

\* `if let Ok(map) = from_value(..) { *table = map }`: the table of `state`
\* named `table` is replaced when the value has the table's type.
Restored(state, table, parsed) ==
    IF parsed.ok THEN [state EXCEPT ![table] = parsed.value] ELSE state

RestoreUsers(state, body) ==
    IF "users" \in DOMAIN body
    THEN Restored(state, "users", UsersFromJson(body.users))
    ELSE state

RestoreOrdersById(state, body) ==
    IF "orders_by_id" \in DOMAIN body
    THEN Restored(state, "orders_by_id", OrdersByIdFromJson(body.orders_by_id))
    ELSE state

RestoreOrdersByUser(state, body) ==
    IF "orders_by_user" \in DOMAIN body
    THEN Restored(state, "orders_by_user", [ok |-> TRUE, value |-> body.orders_by_user])
    ELSE state

RestoreLiquidationMap(state, body) ==
    IF "liquidation_map" \in DOMAIN body
    THEN Restored(state, "liquidation_map",
                  LiquidationMapFromJson(body.liquidation_map))
    ELSE state

\* The orders of the old format are added to what the tables hold by then.
ConvertOldFormat(state, body, order) ==
    IF LegacyUsers(body) # {}
    THEN ConvertOldOrders(
             state, OldOrdersIn(OldOrdersFromJson(body.orders).value, order))
    ELSE state

RestorePrices(state, body) ==
    IF "prices" \in DOMAIN body
    THEN Restored(state, "asset_prices", PricesFromJson(body.prices))
    ELSE state

RestoreLastProcessedId(state, body) ==
    IF "last_processed_id" \in DOMAIN body
    THEN [state EXCEPT !.last_processed_id = body.last_processed_id]
    ELSE state

\* load_snapshot of a file that is JSON, into a new engine, with `order` the
\* order in which the HashMap of the old format's `orders` iterates.
load_snapshot(body, order) ==
    RestoreLastProcessedId(
        RestorePrices(
            ConvertOldFormat(
                RestoreLiquidationMap(
                    RestoreOrdersByUser(
                        RestoreOrdersById(RestoreUsers(FreshState, body), body),
                        body),
                    body),
                body, order),
            body),
        body)

(***************************************************************************)
(* main (main.rs) and the specifications.                                  *)
(***************************************************************************)
AbsentFile == [kind |-> "absent"]

\* The three tasks of main: the command loop, the liquidation checker and the
\* snapshot task.
Tasks == {"cmd", "scan", "snap"}

\* No task is inside a call of BalanceManager or save_snapshot.
NoLocks ==
    [op |-> [t \in Tasks |-> "idle"], pc |-> [t \in Tasks |-> 0],
     held |-> [t \in Tasks |-> {}]]

NoLiquidation == [order_id |-> "none", result |-> "none"]

InitWith(files) ==
    /\ main_pc = "load"
    /\ users = EmptyMap
    /\ orders_by_id = EmptyMap
    /\ orders_by_user = EmptyMap
    /\ liquidation_map = EmptyMap
    /\ asset_prices = EmptyMap
    /\ last_processed_id = Dollar
    /\ cmd_pc = "read"
    /\ cmd_id = 0
    /\ cmd_msg = NoMsg
    /\ cmd_order = NoOrder
    /\ cmd_result = "none"
    /\ published = <<>>
    /\ db_queue = <<>>
    /\ scan_pc = "tick"
    /\ liquidated_orders = <<>>
    /\ liq_result = NoLiquidation
    /\ missed = {}
    /\ realized_pnl = DecFromInt(0)
    /\ applied = Dollar
    /\ snapshot_file \in files
    /\ saved_applied = Dollar
    /\ stream = <<>>
    /\ stream_base = 0
    /\ crashes = 0
    /\ publisher_ok = TRUE
    /\ locks = NoLocks

\* main: load_snapshot, then the tasks are spawned. No file: the engine starts
\* empty. A file that is not JSON: serde_json::from_str fails, load_snapshot
\* returns the error and main returns it (`load_snapshot().await?`). A file that
\* is JSON: the state is the one load_snapshot builds.
Boot ==
    /\ main_pc = "load"
    /\ CASE snapshot_file.kind = "absent" ->
              /\ main_pc' = "run"
              /\ UNCHANGED <<tables, last_processed_id, applied>>
         [] snapshot_file.kind = "unparseable" ->
              /\ main_pc' = "exit"
              /\ UNCHANGED <<tables, last_processed_id, applied>>
         [] snapshot_file.kind = "json" ->
              \E order \in Orders(LegacyUsers(snapshot_file.body)) :
                 LET loaded == load_snapshot(snapshot_file.body, order)
                 IN  /\ main_pc' = "run"
                     /\ users' = loaded.users
                     /\ orders_by_id' = loaded.orders_by_id
                     /\ orders_by_user' = loaded.orders_by_user
                     /\ liquidation_map' = loaded.liquidation_map
                     /\ asset_prices' = loaded.asset_prices
                     /\ last_processed_id' = loaded.last_processed_id
                     /\ applied' = saved_applied
    /\ UNCHANGED <<cmd_vars, scan_vars, realized_pnl, env_vars>>

\* The snapshot task (main.rs, the first spawned task): save_snapshot, which
\* takes users.read() first and so waits while a create_order is under way.
SaveSnapshot ==
    /\ main_pc = "run"
    /\ ~InCreateOrder
    /\ LET file == [kind |-> "json", body |-> SnapshotJson]
           kept == TrimStream(file, last_processed_id)
       IN  /\ snapshot_file' = file
           /\ stream' = kept.stream
           /\ stream_base' = kept.base
    /\ saved_applied' = applied
    /\ UNCHANGED <<main_pc, tables, last_processed_id, cmd_vars, scan_vars,
                   realized_pnl, applied, crashes, publisher_ok, locks>>

\* The process is stopped and started again: main builds a new BalanceManager
\* and a new Processor, and only snapshot.json and the stream are left.
Crash ==
    /\ main_pc = "run"
    /\ crashes < MaxCrashes
    /\ crashes' = crashes + 1
    /\ main_pc' = "load"
    /\ users' = FreshState.users
    /\ orders_by_id' = FreshState.orders_by_id
    /\ orders_by_user' = FreshState.orders_by_user
    /\ liquidation_map' = FreshState.liquidation_map
    /\ asset_prices' = FreshState.asset_prices
    /\ last_processed_id' = FreshState.last_processed_id
    /\ cmd_pc' = "read"
    /\ cmd_id' = 0
    /\ cmd_msg' = NoMsg
    /\ cmd_order' = NoOrder
    /\ cmd_result' = "none"
    /\ published' = <<>>
    /\ db_queue' = <<>>
    /\ scan_pc' = "tick"
    /\ liquidated_orders' = <<>>
    /\ liq_result' = NoLiquidation
    /\ missed' = {}
    /\ realized_pnl' = DecFromInt(0)
    /\ applied' = Dollar
    /\ LET kept == TrimStream(snapshot_file, Dollar)
       IN  stream' = kept.stream /\ stream_base' = kept.base
    /\ UNCHANGED <<snapshot_file, saved_applied, publisher_ok, locks>>

Init == InitWith({AbsentFile})

Next ==
    \/ Boot
    \/ CmdRead(Messages)
    \/ CmdCreateByUser
    \/ CmdCreateLiquidation
    \/ CmdUpdateId
    \/ ScanTick
    \/ ScanLiquidate

Spec == Init /\ [][Next]_vars

\* The entries the input stream may deliver under SpecSnapshot.
SnapshotMessages ==
    { m \in PriceMsgs : m.buyPrice = m.sellPrice }
    \cup { m \in CreateMsgs : /\ m.user = "u1"
                              /\ m.margin = NatDigits(100)
                              /\ \/ m.orderId = "o1" /\ m.type = "long"
                                 \/ m.orderId = "o2" /\ m.type = "short" }
    \cup { m \in CloseMsgs : m.orderId = "o1" }

\* An order as a snapshot of the old format holds it: opened at 100 with
\* margin 100 and leverage 10.
OldOrder(order_id, user_id, order_type) ==
    OrderToJson([order_id |-> order_id, user_id |-> user_id, asset |-> "BTC",
                 order_type |-> order_type, margin |-> DecFromInt(100),
                 leverage |-> 10, open_price |-> DecFromInt(100),
                 quantity |-> DecFromInt(10), timestamp |-> 0])

\* A snapshot of the old format: `orders` is user_id -> [Order], and there is
\* no orders_by_id, orders_by_user or liquidation_map.
OldFile(old_orders_map) ==
    [kind |-> "json",
     body |-> [users |-> [u \in Users |-> UserToJson([NewUser EXCEPT
                             !.usd_balance = DecFromInt(InitialUsd - 200)])],
               orders |-> old_orders_map,
               prices |-> [a \in Assets |->
                              PriceToJson([symbol |-> a, buy_price |-> DecFromInt(100),
                                           sell_price |-> DecFromInt(100),
                                           decimals |-> 2])]]]

\* The snapshots of the old format a run may start with: an order of each of
\* two users; two orders of one user with one liquidation price; two orders of
\* one user listed under different keys.
OldFiles ==
    { OldFile([u1 |-> <<OldOrder("o1", "u1", "long")>>,
               u2 |-> <<OldOrder("o2", "u2", "short")>>]),
      OldFile([u1 |-> <<OldOrder("o1", "u1", "long"), OldOrder("o2", "u1", "long")>>]),
      OldFile([u1 |-> <<OldOrder("o1", "u1", "long")>>,
               u2 |-> <<OldOrder("o2", "u1", "long")>>]) }

\* Snapshots of the old format that hold less than OldFile: `orders` alone, and
\* `users` and `orders` without `prices`. load_snapshot restores each key on
\* its own and takes a file without some of them.
BareOldFiles ==
    { [kind |-> "json",
       body |-> [orders |-> [u \in {"u1"} |-> <<OldOrder("o1", "u1", "long")>>]]],
      [kind |-> "json",
       body |-> [users |-> [u \in {"u1"} |-> UserToJson([NewUser EXCEPT
                               !.usd_balance = DecFromInt(InitialUsd - 100)])],
                 orders |-> [u \in {"u1"} |-> <<OldOrder("o1", "u1", "long")>>]]] }

UnparseableFile == [kind |-> "unparseable"]

NextSnapshot ==
    \/ Boot
    \/ CmdRead(SnapshotMessages)
    \/ CmdCreateByUser
    \/ CmdCreateLiquidation
    \/ CmdUpdateId
    \/ ScanTick
    \/ ScanLiquidate
    \/ SaveSnapshot
    \/ Crash

\* The engine with its snapshot task, started without a file and stopped and
\* started again.
SpecSnapshot == Init /\ [][NextSnapshot]_vars

\* The entries the input stream may deliver under SpecBoot.
BootMessages ==
    { m \in PriceMsgs : m.buyPrice = m.sellPrice }
    \cup { m \in CreateMsgs : /\ m.user = "u1"
                              /\ m.margin = NatDigits(100)
                              /\ m.orderId = "o1"
                              /\ m.type = "long" }
    \cup { m \in CloseMsgs : m.orderId = "o1" }

InitBoot == InitWith({AbsentFile, UnparseableFile} \cup OldFiles \cup BareOldFiles)

NextBoot ==
    \/ Boot
    \/ CmdRead(BootMessages)
    \/ CmdCreateByUser
    \/ CmdCreateLiquidation
    \/ CmdUpdateId
    \/ ScanTick
    \/ ScanLiquidate

\* The engine started with any of the files: none, one that is not JSON, one
\* of the old format.
SpecBoot == InitBoot /\ [][NextBoot]_vars

\* The decimal string of an integer, with its sign.
IntString(n) == IF n < 0 THEN <<"-">> \o NatDigits(-n) ELSE NatDigits(n)

\* The margins of the CREATE_ORDER entries under SpecMargin: below, at and
\* above the balances of BalanceFiles, zero, negative, and with a fraction.
Margins ==
    { IntString(5000), IntString(5001), IntString(0), IntString(-100),
      IntString(-6000), <<"0", ".", "5">> }

\* The entries the input stream may deliver under SpecMargin.
MarginMessages ==
    { m \in PriceMsgs : m.buyPrice = m.sellPrice }
    \cup { [action |-> "CREATE_ORDER", orderId |-> "o1", user |-> "u1",
            asset |-> "BTC", type |-> "long", margin |-> margin, leverage |-> 10,
            timestamp |-> 0, age |-> 0] : margin \in Margins }
    \cup { m \in CloseMsgs : m.orderId = "o1" }

\* A snapshot an earlier run wrote after its last entry, with no order open,
\* the price at 100 and user u1 left with `balance` (a close may leave less
\* than nothing: close_order credits margin + pnl whatever its sign).
BalanceFile(balance) ==
    [kind |-> "json",
     body |-> [users |-> [u \in {"u1"} |->
                             UserToJson([NewUser EXCEPT !.usd_balance = balance])],
               orders_by_id |-> EmptyMap,
               orders_by_user |-> EmptyMap,
               liquidation_map |-> EmptyMap,
               prices |-> [a \in Assets |->
                              PriceToJson([symbol |-> a, buy_price |-> DecFromInt(100),
                                           sell_price |-> DecFromInt(100),
                                           decimals |-> 2])],
               last_processed_id |-> 0,
               timestamp |-> 0]]

BalanceFiles ==
    { BalanceFile(DecFromInt(b)) : b \in {-5000, 0} }

InitMargin == InitWith({AbsentFile} \cup BalanceFiles)

NextMargin ==
    \/ Boot
    \/ CmdRead(MarginMessages)
    \/ CmdCreateByUser
    \/ CmdCreateLiquidation
    \/ CmdUpdateId
    \/ ScanTick
    \/ ScanLiquidate

\* The engine started with or without a snapshot of some balance and given
\* CREATE_ORDER entries of every kind of margin.
SpecMargin == InitMargin /\ [][NextMargin]_vars

\* A CREATE_ORDER with every field, `age` seconds after its timestamp.
CommandCreate(age) ==
    [action |-> "CREATE_ORDER", orderId |-> "o1", user |-> "u1", asset |-> "BTC",
     type |-> "long", margin |-> NatDigits(100), leverage |-> 10, timestamp |-> 0,
     age |-> age]

\* The entries the input stream may deliver under SpecCommands: prices; a
\* CREATE_ORDER in time, at the edge of the window, too old and too new; one
\* whose margin is no decimal, one without margin and one of margin 6000; a
\* CLOSE_ORDER; the four queries, one of them without its user; an action
\* process_message does not know; a price of zero and a CREATE_ORDER of
\* leverage zero, which make create_order divide by zero; a price of a second
\* symbol and a LATEST_PRICE without its sellPrice.
CommandMessages ==
    { m \in PriceMsgs : m.buyPrice = m.sellPrice }
    \cup { [action |-> "LATEST_PRICE", symbol |-> "BTC", buyPrice |-> NatDigits(0),
            sellPrice |-> NatDigits(0), decimals |-> 2],
           [action |-> "LATEST_PRICE", symbol |-> "ETH", buyPrice |-> NatDigits(100),
            sellPrice |-> NatDigits(100), decimals |-> 2],
           [action |-> "LATEST_PRICE", symbol |-> "BTC", buyPrice |-> NatDigits(100),
            decimals |-> 2],
           [CommandCreate(0) EXCEPT !.leverage = 0] }
    \cup { CommandCreate(age) :
               age \in {0, TimestampWindow, TimestampWindow + 1,
                        -(TimestampWindow + 1)} }
    \cup { [CommandCreate(0) EXCEPT !.margin = <<"a", "b", "c">>],
           [CommandCreate(0) EXCEPT !.margin = NatDigits(6000)],
           [action |-> "CREATE_ORDER", orderId |-> "o1", user |-> "u1",
            asset |-> "BTC", type |-> "long", leverage |-> 10, timestamp |-> 0,
            age |-> 0] }
    \cup { m \in CloseMsgs : m.orderId = "o1" }
    \cup { [action |-> "GET_BALANCE_USD", user |-> "u2", orderId |-> "q1"],
           [action |-> "GET_BALANCE", user |-> "u1", orderId |-> "q1"],
           [action |-> "GET_SUPPORTED_ASSETS", orderId |-> "q1"],
           [action |-> "GET_ORDERS", user |-> "u1", orderId |-> "q1"],
           [action |-> "GET_ORDERS", orderId |-> "q1"],
           [action |-> "PING", orderId |-> "q1"] }

NextCommands ==
    \/ Boot
    \/ CmdRead(CommandMessages)
    \/ CmdCreateByUser
    \/ CmdCreateLiquidation
    \/ CmdUpdateId
    \/ ScanTick
    \/ ScanLiquidate

\* The engine started without a file and given entries of every action, well
\* formed or not.
SpecCommands == Init /\ [][NextCommands]_vars

\* The connection publisher uses is lost or comes back: from here on
\* publisher returns Err, or Ok again.
PublisherFlip ==
    /\ main_pc = "run"
    /\ publisher_ok' = ~publisher_ok
    /\ UNCHANGED <<main_pc, tables, last_processed_id, cmd_vars, scan_vars,
                   realized_pnl, applied, snapshot_file, saved_applied, stream,
                   stream_base, crashes, locks>>

\* start_processing: read_stream returns Err; the error is logged and the loop
\* sleeps for a second.
ReadStreamFails ==
    /\ main_pc = "run"
    /\ cmd_pc = "read"
    /\ cmd_pc' = "backoff"
    /\ UNCHANGED <<main_pc, tables, last_processed_id, cmd_id, cmd_msg, cmd_order,
                   cmd_result, published, db_queue, scan_vars, realized_pnl,
                   applied, env_vars>>

\* start_processing: the sleep is over and the loop starts again with a read
\* of last_processed_id.
ReadBackoff ==
    /\ main_pc = "run"
    /\ cmd_pc = "backoff"
    /\ cmd_pc' = "read"
    /\ UNCHANGED <<main_pc, tables, last_processed_id, cmd_id, cmd_msg, cmd_order,
                   cmd_result, published, db_queue, scan_vars, realized_pnl,
                   applied, env_vars>>

\* The entries the input stream may deliver under SpecPublish.
PublishMessages ==
    { m \in PriceMsgs : m.buyPrice = m.sellPrice }
    \cup { m \in CreateMsgs : m.orderId = "o1" /\ m.user = "u1" /\ m.type = "long" }
    \cup { m \in CloseMsgs : m.orderId = "o1" }

NextPublish ==
    \/ Boot
    \/ CmdRead(PublishMessages)
    \/ CmdCreateByUser
    \/ CmdCreateLiquidation
    \/ CmdUpdateId
    \/ ScanTick
    \/ ScanLiquidate
    \/ PublisherFlip
    \/ ReadStreamFails
    \/ ReadBackoff

\* The engine with a publisher and a read_stream that may fail.
SpecPublish == Init /\ [][NextPublish]_vars

\* The entries the input stream may deliver under SpecBucket: a long opened at
\* 110 and a short opened at 90, both of leverage 9, have the liquidation
\* price 99.0 and so the same bucket.
BucketMessages ==
    { [action |-> "LATEST_PRICE", symbol |-> "BTC", buyPrice |-> NatDigits(p),
       sellPrice |-> NatDigits(p), decimals |-> 2] : p \in {110, 90} }
    \cup { [action |-> "CREATE_ORDER", orderId |-> "o1", user |-> "u1",
            asset |-> "BTC", type |-> "long", margin |-> NatDigits(110),
            leverage |-> 9, timestamp |-> 0, age |-> 0],
           [action |-> "CREATE_ORDER", orderId |-> "o2", user |-> "u2",
            asset |-> "BTC", type |-> "short", margin |-> NatDigits(110),
            leverage |-> 9, timestamp |-> 0, age |-> 0] }
    \cup { m \in CloseMsgs : m.orderId = "o1" }

NextBucket ==
    \/ Boot
    \/ CmdRead(BucketMessages)
    \/ CmdCreateByUser
    \/ CmdCreateLiquidation
    \/ CmdUpdateId
    \/ ScanTick
    \/ ScanLiquidate

\* The engine given longs and shorts that share a bucket.
SpecBucket == Init /\ [][NextBucket]_vars

\* A check_liquidations whose try_read succeeds for every bucket would list
\* an order.
ScanWouldList ==
    /\ main_pc = "run"
    /\ scan_pc = "tick"
    /\ \E order \in Orders(DOMAIN liquidation_map) :
          check_liquidations(order, {}) # <<>>

\* The scheduling of the tasks. The command loop, once it has taken an entry,
\* goes through create_order and sets last_processed_id; the scanner goes
\* through its list and comes back to its tick; and when a scan that reads
\* every bucket would list an order from some point on, a scan does list one
\* (weak fairness of that scan). Nothing says that another entry arrives.
Fairness ==
    /\ []<>(cmd_pc = "read")
    /\ []<>(scan_pc = "tick")
    /\ \/ []<>(~ScanWouldList)
       \/ []<><<scan_pc = "tick" /\ scan_pc' = "liquidate">>_vars

\* The engine of SpecBucket with its tasks scheduled fairly.
SpecLive == Init /\ [][NextBucket]_vars /\ Fairness

(***************************************************************************)
(* The table locks (tokio::sync::RwLock). A call is the list of its lock   *)
(* steps in the order of the code: <<"acq", table, mode>> is `.read()` or  *)
(* `.write()` followed by `.await`, <<"rel", table, mode>> the end of the  *)
(* block that holds the guard, <<"try", table, mode>> a try_read whose     *)
(* guard is dropped at once; the guards still held are dropped on return.  *)
(***************************************************************************)
\* create_order under a users.write() that is dropped before the tables are
\* written.
CreateOrderLocksUsersDropped ==
    << <<"acq", "users", "write">>,
       <<"acq", "asset_prices", "read">>, <<"rel", "asset_prices", "read">>,
       <<"rel", "users", "write">>,
       <<"acq", "orders_by_id", "write">>, <<"rel", "orders_by_id", "write">>,
       <<"acq", "orders_by_user", "write">>, <<"rel", "orders_by_user", "write">>,
       <<"acq", "liquidation_map", "write">>, <<"rel", "liquidation_map", "write">> >>

\* BalanceManager::create_order.
CreateOrderLocks ==
    << <<"acq", "users", "write">>,
       <<"acq", "asset_prices", "read">>, <<"rel", "asset_prices", "read">>,
       <<"acq", "orders_by_id", "write">>, <<"rel", "orders_by_id", "write">>,
       <<"acq", "orders_by_user", "write">>, <<"rel", "orders_by_user", "write">>,
       <<"acq", "liquidation_map", "write">>, <<"rel", "liquidation_map", "write">> >>

\* The lock steps of each call.
LockProgram(op) ==
    CASE op = "create_order" -> CreateOrderLocks
      [] op = "close_order" ->
            << <<"acq", "users", "write">>, <<"acq", "orders_by_id", "write">>,
               <<"acq", "orders_by_user", "write">>,
               <<"acq", "liquidation_map", "write">>,
               <<"acq", "asset_prices", "read">>, <<"rel", "asset_prices", "read">> >>
      [] op = "liquidate_order" ->
            << <<"acq", "orders_by_id", "write">>,
               <<"acq", "orders_by_user", "write">>,
               <<"acq", "liquidation_map", "write">> >>
      [] op = "check_liquidations" ->
            << <<"acq", "liquidation_map", "read">>,
               <<"acq", "asset_prices", "read">>,
               <<"try", "orders_by_id", "read">> >>
      [] op = "save_snapshot" ->
            << <<"acq", "users", "read">>, <<"acq", "orders_by_id", "read">>,
               <<"acq", "orders_by_user", "read">>,
               <<"acq", "liquidation_map", "read">>,
               <<"acq", "asset_prices", "read">> >>
      [] op = "get_user_orders" ->
            << <<"acq", "orders_by_user", "read">>,
               <<"acq", "orders_by_id", "read">> >>
      [] op = "get_or_create_user" -> << <<"acq", "users", "write">> >>
      [] op = "get_user_balance_usd" -> << <<"acq", "users", "read">> >>
      [] op = "update_price" -> << <<"acq", "asset_prices", "write">> >>

\* The calls each task makes.
TaskOps(t) ==
    CASE t = "cmd" -> {"create_order", "close_order", "get_user_orders",
                       "get_or_create_user", "get_user_balance_usd", "update_price"}
      [] t = "scan" -> {"check_liquidations", "liquidate_order"}
      [] t = "snap" -> {"save_snapshot"}

\* Task t is inside a call and has lock steps left; its next one.
HasStep(t) ==
    /\ locks.op[t] # "idle"
    /\ locks.pc[t] <= Len(LockProgram(locks.op[t]))

LockStep(t) == LockProgram(locks.op[t])[locks.pc[t]]

\* Task u holds a lock of `table` that keeps a request of `mode` waiting: any
\* lock keeps a write waiting, a write lock keeps a read waiting.
HoldsAgainst(u, table, mode) ==
    \E h \in locks.held[u] : h[1] = table /\ (mode = "write" \/ h[2] = "write")

\* Task t is at an .await of a lock that task u keeps it from.
WaitsFor(t, u) ==
    /\ HasStep(t)
    /\ LockStep(t)[1] = "acq"
    /\ HoldsAgainst(u, LockStep(t)[2], LockStep(t)[3])

\* Everything but the locks.
NotLocks ==
    <<main_pc, tables, last_processed_id, cmd_vars, scan_vars, realized_pnl,
      applied, snapshot_file, saved_applied, stream, stream_base, crashes,
      publisher_ok>>

\* A task enters one of its calls.
LockBegin(t) ==
    /\ main_pc = "run"
    /\ locks.op[t] = "idle"
    /\ \E op \in TaskOps(t) :
          locks' = [locks EXCEPT !.op[t] = op, !.pc[t] = 1]
    /\ UNCHANGED NotLocks

\* `.read().await` / `.write().await` returns the guard: no other task holds
\* a lock that keeps the request waiting.
LockAcquire(t) ==
    /\ HasStep(t)
    /\ LockStep(t)[1] = "acq"
    /\ \A u \in Tasks \ {t} : ~WaitsFor(t, u)
    /\ locks' = [locks EXCEPT !.held[t] = @ \cup {<<LockStep(t)[2], LockStep(t)[3]>>},
                              !.pc[t] = @ + 1]
    /\ UNCHANGED NotLocks

\* try_read: it returns at once, with the guard or with an error, and the
\* guard is dropped before the next step.
LockTry(t) ==
    /\ HasStep(t)
    /\ LockStep(t)[1] = "try"
    /\ locks' = [locks EXCEPT !.pc[t] = @ + 1]
    /\ UNCHANGED NotLocks

\* The block that holds a guard ends.
LockRelease(t) ==
    /\ HasStep(t)
    /\ LockStep(t)[1] = "rel"
    /\ locks' = [locks EXCEPT !.held[t] = @ \ {<<LockStep(t)[2], LockStep(t)[3]>>},
                              !.pc[t] = @ + 1]
    /\ UNCHANGED NotLocks

\* The call returns and its guards are dropped.
LockReturn(t) ==
    /\ locks.op[t] # "idle"
    /\ ~HasStep(t)
    /\ locks' = [locks EXCEPT !.op[t] = "idle", !.pc[t] = 0, !.held[t] = {}]
    /\ UNCHANGED NotLocks

NextLocks ==
    \/ Boot
    \/ \E t \in Tasks : LockBegin(t)
    \/ \E t \in Tasks : LockAcquire(t)
    \/ \E t \in Tasks : LockTry(t)
    \/ \E t \in Tasks : LockRelease(t)
    \/ \E t \in Tasks : LockReturn(t)

\* The three tasks and the locks they take, whatever the tables hold.
SpecLocks == Init /\ [][NextLocks]_vars

(***************************************************************************)
(* Properties.                                                             *)
(***************************************************************************)

\* The command loop is not inside a command: the last one has committed.
Committed == main_pc = "run" /\ ~InCreateOrder

\* The step hands a CREATE_ORDER to process_message.
CreateStep == cmd_pc = "read" /\ cmd_pc' # "read" /\ cmd_msg'.action = "CREATE_ORDER"

\* The step hands a CLOSE_ORDER to process_message.
CloseStep == cmd_pc = "read" /\ cmd_pc' # "read" /\ cmd_msg'.action = "CLOSE_ORDER"

\* The step is a call of liquidate_order.
LiquidateStep == scan_pc = "liquidate" /\ liquidated_orders' = Tail(liquidated_orders)

\* The order ids in the buckets of liquidation_map, with their places.
LiquidationPlaces ==
    {<<a, k, i>> \in UNION {UNION {{<<a, k, i>> : i \in 1..Len(liquidation_map[a][k])} :
                                   k \in DOMAIN liquidation_map[a]} :
                            a \in DOMAIN liquidation_map} : TRUE}

\* C1: a CREATE_ORDER whose orderId is the id of an order in orders_by_id is
\* rejected and changes nothing: no balance of an existing user, no order of
\* orders_by_id, and it goes on to push nothing onto orders_by_user or
\* liquidation_map.
C1_DuplicateCreateRejected ==
    [][(CreateStep /\ cmd_msg'.orderId \in DOMAIN orders_by_id)
          => /\ cmd_pc' = "update_id"
             /\ cmd_result' \notin {"ok", "none"}
             /\ orders_by_id' = orders_by_id
             /\ \A u \in DOMAIN users : users'[u] = users[u]]_vars

\* In the tables obi, obu and lm, order o of obi is listed once in its user's
\* list and once in the bucket of its asset under the key of its recomputed
\* liquidation price.
IndexedIn(obi, obu, lm, o) ==
    LET order == obi[o]
        price_key == DecToString(calculate_liquidation_price(order))
    IN  /\ order.user_id \in DOMAIN obu
        /\ CountIds(obu[order.user_id], o) = 1
        /\ order.asset \in DOMAIN lm
        /\ price_key \in DOMAIN lm[order.asset]
        /\ CountEntries(lm[order.asset][price_key], o) = 1

IndexedOnce(o) == IndexedIn(orders_by_id, orders_by_user, liquidation_map, o)

\* C2: index consistency. After every committed command or liquidation every
\* order of orders_by_id is listed exactly once in orders_by_user under its
\* user and has exactly one entry in liquidation_map under its asset and the
\* key of its recomputed liquidation price.
C2_IndexConsistency ==
    Committed => \A o \in DOMAIN orders_by_id : IndexedOnce(o)

\* C3: no ghost orders. After every committed command or liquidation every id
\* in a list of orders_by_user or in a bucket of liquidation_map is the id of
\* an order of orders_by_id.
C3_NoGhostOrders ==
    Committed =>
        /\ \A u \in DOMAIN orders_by_user : \A i \in 1..Len(orders_by_user[u]) :
               orders_by_user[u][i] \in DOMAIN orders_by_id
        /\ \A p \in LiquidationPlaces :
               liquidation_map[p[1]][p[2]][p[3]].order_id \in DOMAIN orders_by_id

\* pnl as the specification gives it: (close - open) * quantity for a long,
\* (open - close) * quantity for a short.
PnlAt(order, price) ==
    IF order.order_type = "long"
    THEN DecMul(DecSub(price, order.open_price), order.quantity)
    ELSE DecMul(DecSub(order.open_price, price), order.quantity)

\* The tables other than users are left as they are.
OrdersUnchanged ==
    /\ orders_by_id' = orders_by_id
    /\ orders_by_user' = orders_by_user
    /\ liquidation_map' = liquidation_map

RECURSIVE SumOver(_, _)
SumOver(f, S) ==
    IF S = {} THEN DecFromInt(0)
    ELSE LET k == CHOOSE k \in S : TRUE
         IN  DecAdd(f[k], SumOver(f, S \ {k}))

\* 5000 for every user ever created: no user is ever removed from users.
total_deposits == DecFromInt(InitialUsd * Cardinality(DOMAIN users))

\* C5: conservation. In every reachable state the sum of the users'
\* usd_balance plus the sum of the live orders' margin plus
\* total_realized_pnl_paid (the pnl of the closes minus the margin of the
\* liquidations) minus total_deposits is zero.
C5_Conservation ==
    LET balances == SumOver([u \in DOMAIN users |-> users[u].usd_balance],
                            DOMAIN users)
        margins  == SumOver([o \in DOMAIN orders_by_id |-> orders_by_id[o].margin],
                            DOMAIN orders_by_id)
    IN  DecEq(DecSub(DecAdd(DecAdd(balances, margins), realized_pnl), total_deposits),
              DecFromInt(0))

\* C10: a create_order that succeeds opens at buy_price for a long and at
\* sell_price for a short, sets quantity to margin * leverage / open_price,
\* takes exactly margin from the user's usd_balance (5000 for a new user), and
\* records, under the key that is its string, the liquidation price
\* open_price * (1 - 0.9 / leverage) for a long and open_price * (1 + 0.9 /
\* leverage) for a short.
C10_CreateOrderArithmetic ==
    [][/\ (CreateStep /\ cmd_pc' = "create_by_user") =>
            LET msg == cmd_msg'
                order == orders_by_id'[msg.orderId]
                price_info == asset_prices[msg.asset]
                margin == DecFromStr(msg.margin).value
                before == IF msg.user \in DOMAIN users
                          THEN users[msg.user].usd_balance
                          ELSE DecFromInt(InitialUsd)
            IN  /\ order.open_price = IF msg.type = "long" THEN price_info.buy_price
                                      ELSE price_info.sell_price
                /\ DecEq(DecMul(order.quantity, order.open_price),
                         DecMul(margin, DecFromInt(msg.leverage)))
                /\ DecEq(order.margin, margin)
                /\ DecEq(DecAdd(users'[msg.user].usd_balance, margin), before)
                /\ \A u \in DOMAIN users \ {msg.user} : users'[u] = users[u]
       /\ (cmd_pc = "create_liquidation" /\ cmd_pc' = "update_id") =>
            LET order == cmd_order
                was(k) == IF /\ order.asset \in DOMAIN liquidation_map
                             /\ k \in DOMAIN liquidation_map[order.asset]
                          THEN liquidation_map[order.asset][k] ELSE <<>>
            IN  \E k \in DOMAIN liquidation_map'[order.asset] :
                   LET entries == liquidation_map'[order.asset][k]
                       e == entries[Len(entries)]
                   IN  /\ entries = Append(was(k), e)
                       /\ e.order_id = order.order_id
                       /\ k = DecToString(e.liquidation_price)
                       /\ DecEq(DecMul(e.liquidation_price,
                                       DecFromInt(10 * order.leverage)),
                                DecMul(order.open_price,
                                       DecFromInt(IF order.order_type = "long"
                                                  THEN 10 * order.leverage - 9
                                                  ELSE 10 * order.leverage + 9)))
      ]_vars

\* C10's case, the specification's example: at buy = 100 a long of margin 100
\* and leverage 10 by a new user has been created: quantity 10, balance 4900,
\* liquidation price 91.
C10_SpecExample ==
    /\ cmd_pc = "update_id"
    /\ cmd_msg.action = "CREATE_ORDER"
    /\ cmd_result = "ok"
    /\ cmd_msg.orderId \in DOMAIN orders_by_id
    /\ LET order == orders_by_id[cmd_msg.orderId]
           key == DecToString([m |-> 9100, s |-> 2])
       IN  /\ order.order_type = "long"
           /\ order.leverage = 10
           /\ DecEq(order.margin, DecFromInt(100))
           /\ DecEq(order.open_price, DecFromInt(100))
           /\ DecEq(order.quantity, DecFromInt(10))
           /\ DecEq(users[order.user_id].usd_balance, DecFromInt(4900))
           /\ key \in DOMAIN liquidation_map[order.asset]
           /\ \E i \in 1..Len(liquidation_map[order.asset][key]) :
                 LET e == liquidation_map[order.asset][key][i]
                 IN  e.order_id = order.order_id
                     /\ DecEq(e.liquidation_price, DecFromInt(91))

\* C6: checkpoint/offset consistency. The tables of every snapshot written
\* with the id X of an entry as its last_processed_id hold the effects of the
\* entries up to X and of no later entry: the last entry whose effects they
\* hold is X.
C6_CheckpointOffsetConsistency ==
    (snapshot_file.kind = "json" /\ FileOffset(snapshot_file) # Dollar)
        => saved_applied = FileOffset(snapshot_file)

\* The tables and last_processed_id as one value, as load_snapshot returns them.
CurrentState ==
    [users |-> users, orders_by_id |-> orders_by_id, orders_by_user |-> orders_by_user,
     liquidation_map |-> liquidation_map, asset_prices |-> asset_prices,
     last_processed_id |-> last_processed_id]

C8_UnparseableStartsEmpty ==
    snapshot_file.kind = "unparseable" => main_pc # "exit"

\* The file is a snapshot of the old format.
IsOldFormat(file) ==
    /\ file.kind = "json"
    /\ "orders" \in DOMAIN file.body
    /\ {"orders_by_id", "orders_by_user", "liquidation_map"} \cap DOMAIN file.body = {}

\* The orders a snapshot of the old format lists, as (key, place) pairs.
OldOrderPlaces(body) ==
    UNION {{<<u, i>> : i \in 1..Len(body.orders[u])} : u \in DOMAIN body.orders}

\* No two places of the file list one order id.
OldIdsDistinct(body) ==
    \A p, q \in OldOrderPlaces(body) :
        body.orders[p[1]][p[2]].order_id = body.orders[q[1]][q[2]].order_id => p = q

C11_CloseOrderArithmetic ==
    [][(CloseStep /\ cmd_result' = "ok") =>
          LET order == orders_by_id[cmd_msg'.orderId]
              price_info == asset_prices[order.asset]
              long == order.order_type = "long"
              close_price == IF long THEN price_info.sell_price
                             ELSE price_info.buy_price
              diff == IF long THEN DecSub(close_price, order.open_price)
                      ELSE DecSub(order.open_price, close_price)
              pnl == DecMul(diff, order.quantity)
              response == published'[Len(published')]
          IN  /\ response.action = "ORDER_SUCCESS"
              /\ DecEq(DecFromStr(response.data.close_price).value, close_price)
              /\ DecEq(DecFromStr(response.data.pnl).value, pnl)
              /\ DecEq(users'[order.user_id].usd_balance,
                       DecAdd(users[order.user_id].usd_balance,
                              DecAdd(order.margin, pnl)))
              /\ \A u \in DOMAIN users \ {order.user_id} : users'[u] = users[u]
      ]_vars

\* C11's case: a long of margin 100 opened at 100 with quantity 10 by a user
\* who had 5000 has been closed at sell = 125: the pnl is 250 and the balance
\* 5250.
C11_ClosedAtProfit ==
    /\ cmd_pc = "update_id"
    /\ cmd_msg.action = "CLOSE_ORDER"
    /\ cmd_result = "ok"
    /\ Len(published) = 1
    /\ DecEq(DecFromStr(published[1].data.pnl).value, DecFromInt(250))
    /\ DecEq(DecFromStr(published[1].data.close_price).value, DecFromInt(125))
    /\ \E u \in DOMAIN users : DecEq(users[u].usd_balance, DecFromInt(5250))

\* C12: liquidation correctness. Every live order whose trigger holds at a
\* scanner tick (mid <= L for a long, mid >= L for a short) is listed by that
\* tick, whatever the command loop is doing, and liquidate_order for a listed
\* order that is live removes it from orders_by_id, from its user's list and
\* from its bucket of liquidation_map and leaves every usd_balance as it was.
C12_LiquidationCorrectness ==
    [][/\ missed' = {}
       /\ (LiquidateStep /\ Head(liquidated_orders)[1] \in DOMAIN orders_by_id) =>
            LET o == Head(liquidated_orders)[1]
                order == orders_by_id[o]
                price_key == DecToString(calculate_liquidation_price(order))
            IN  /\ o \notin DOMAIN orders_by_id'
                /\ order.user_id \in DOMAIN orders_by_user' =>
                       CountIds(orders_by_user'[order.user_id], o) = 0
                /\ (/\ order.asset \in DOMAIN liquidation_map'
                    /\ price_key \in DOMAIN liquidation_map'[order.asset]) =>
                       CountEntries(liquidation_map'[order.asset][price_key], o) = 0
                /\ users' = users
      ]_vars

\* C13: immediately after every create_order that succeeds, from the debit to
\* the return, the usd_balance of the order's user is >= 0, whatever the margin
\* and whatever the balance before.
C13_BalanceNonNegativeAfterCreate ==
    [][/\ (CreateStep /\ cmd_pc' = "create_by_user") =>
            DecGe(users'[cmd_msg'.user].usd_balance, DecFromInt(0))
       /\ (cmd_pc = "create_liquidation" /\ cmd_pc' = "update_id") =>
            /\ cmd_result' = "ok"
            /\ DecGe(users'[cmd_order.user_id].usd_balance, DecFromInt(0))
      ]_vars

\* C13's case: a user whose balance was -5000 has created an order of margin
\* -6000, which the check lets through, and is left with 1000.
C13_NegativeMarginCreated ==
    /\ cmd_pc = "update_id"
    /\ cmd_msg.action = "CREATE_ORDER"
    /\ cmd_result = "ok"
    /\ cmd_msg.margin = IntString(-6000)
    /\ snapshot_file = BalanceFile(DecFromInt(-5000))
    /\ DecEq(users[cmd_msg.user].usd_balance, DecFromInt(1000))

\* C14: a create_order that fails with "Insufficient balance" or "Asset price
\* not available" changes nothing but the creation of its user with 5000 when
\* the user is new: every balance there was, orders_by_id, orders_by_user and
\* liquidation_map are as before, and the command goes on to no push.
C14_FailedCreateNoMutation ==
    [][(CreateStep /\ cmd_result' \in {"Insufficient balance",
                                        "Asset price not available"}) =>
          /\ \A u \in DOMAIN users : users'[u] = users[u]
          /\ DOMAIN users' = DOMAIN users \cup {cmd_msg'.user}
          /\ cmd_msg'.user \notin DOMAIN users =>
                 /\ DecEq(users'[cmd_msg'.user].usd_balance, DecFromInt(5000))
                 /\ DOMAIN users'[cmd_msg'.user].asset_balances = {}
          /\ OrdersUnchanged
          /\ cmd_pc' = "update_id"
      ]_vars

\* C14's case, the specification's example: with a price known, a new user's
\* CREATE_ORDER of margin 6000 has failed with "Insufficient balance", the user
\* has 5000 and no order is held.
C14_InsufficientBalanceExample ==
    /\ cmd_pc = "update_id"
    /\ cmd_msg.action = "CREATE_ORDER"
    /\ cmd_msg.margin = NatDigits(6000)
    /\ cmd_result = "Insufficient balance"
    /\ cmd_msg.asset \in DOMAIN asset_prices
    /\ DOMAIN users = {cmd_msg.user}
    /\ DecEq(users[cmd_msg.user].usd_balance, DecFromInt(5000))
    /\ DOMAIN orders_by_id = {}
    /\ DOMAIN orders_by_user = {}
    /\ DOMAIN liquidation_map = {}

\* C15: a CLOSE_ORDER for an id that is not in orders_by_id, among them the
\* second close of an order and the close of a liquidated order, gets exactly
\* one response, ORDER_FAILED "Order not found" on the channel of the id;
\* it credits no balance, changes no table and appends nothing to db_queue.
C15_CloseUnknownOrder ==
    [][(CloseStep /\ cmd_msg'.orderId \notin DOMAIN orders_by_id) =>
          /\ published' =
                 Append(published,
                        [channel |-> cmd_msg'.orderId, action |-> "ORDER_FAILED",
                         data |-> [orderId |-> cmd_msg'.orderId,
                                   message |-> "Order not found"]])
          /\ Len(published') = 1
          /\ db_queue' = db_queue
          /\ users' = users
          /\ asset_prices' = asset_prices
          /\ OrdersUnchanged
      ]_vars

\* C15's case: the scanner has liquidated an order, and the CLOSE_ORDER for it
\* that came after has been answered with "Order not found".
C15_ClosedAfterLiquidation ==
    /\ cmd_pc = "update_id"
    /\ cmd_msg.action = "CLOSE_ORDER"
    /\ cmd_result = "Order not found"
    /\ liq_result = [order_id |-> cmd_msg.orderId, result |-> "ok"]
    /\ Len(published) = 1
    /\ published[1].action = "ORDER_FAILED"
    /\ db_queue = <<>>

\* C16: a close_order that returns an error ("Order not found", "User not
\* found" or "Asset price not available") leaves orders_by_id, orders_by_user,
\* liquidation_map and every balance as they were: the order it was called
\* for, if there was one, is still in orders_by_id.
C16_FailedCloseNoMutation ==
    [][(CloseStep /\ cmd_result' \in {"Order not found", "User not found",
                                       "Asset price not available"}) =>
          /\ OrdersUnchanged
          /\ users' = users
          /\ cmd_msg'.orderId \in DOMAIN orders_by_id =>
                 cmd_msg'.orderId \in DOMAIN orders_by_id'
      ]_vars

\* C17: a CREATE_ORDER that handle_create_order reads (every field is there
\* and parses) and whose timestamp is more than 5 seconds from the current
\* time, before or after, gets one response, ORDER_FAILED "Order rejected:
\* timestamp too old" on the channel of its orderId, and changes nothing: no
\* user is created, no balance debited, no order inserted here or later.
C17_StaleCreateRejected ==
    [][(/\ CreateStep
        /\ {"orderId", "user", "asset", "type", "margin", "leverage", "timestamp"}
               \subseteq DOMAIN cmd_msg'
        /\ DecFromStr(cmd_msg'.margin).ok
        /\ (cmd_msg'.age > 5 \/ cmd_msg'.age < -5))
       => /\ published' =
                 <<[channel |-> cmd_msg'.orderId, action |-> "ORDER_FAILED",
                    data |-> [orderId |-> cmd_msg'.orderId,
                              message |-> "Order rejected: timestamp too old"]]>>
          /\ users' = users
          /\ asset_prices' = asset_prices
          /\ OrdersUnchanged
          /\ db_queue' = db_queue
          /\ cmd_pc' = "update_id"
      ]_vars

\* C17's case: with a price known and a balance that would do, a CREATE_ORDER
\* 6 seconds old has been answered with ORDER_FAILED and has created neither
\* its user nor an order.
C17_StaleCreateAnswered ==
    /\ cmd_pc = "update_id"
    /\ cmd_msg.action = "CREATE_ORDER"
    /\ cmd_msg.age = 6
    /\ cmd_msg.asset \in DOMAIN asset_prices
    /\ Len(published) = 1
    /\ published[1].action = "ORDER_FAILED"
    /\ cmd_msg.user \notin DOMAIN users
    /\ DOMAIN orders_by_id = {}

\* C19: a command entry that is malformed (a field of its action is missing
\* or its margin is no decimal) gets an ORDER_FAILED response and changes no
\* balance, order or price; the processor goes on to record the entry's id.
C19_MalformedCommandFails ==
    [][(/\ cmd_pc = "read"
        /\ cmd_pc' # "read"
        /\ \/ /\ cmd_msg'.action = "CREATE_ORDER"
              /\ \/ ~({"orderId", "user", "asset", "type", "margin", "leverage",
                        "timestamp"} \subseteq DOMAIN cmd_msg')
                 \/ ~DecFromStr(cmd_msg'.margin).ok
           \/ /\ cmd_msg'.action \in {"GET_BALANCE_USD", "GET_BALANCE", "GET_ORDERS"}
              /\ ~({"orderId", "user"} \subseteq DOMAIN cmd_msg'))
       => /\ users' = users
          /\ asset_prices' = asset_prices
          /\ OrdersUnchanged
          /\ cmd_pc' = "update_id"
          /\ Len(published') = 1
          /\ published'[1].action = "ORDER_FAILED"
      ]_vars

\* C18: when process_message has returned for an entry, a CREATE_ORDER,
\* CLOSE_ORDER, GET_BALANCE_USD, GET_BALANCE, GET_SUPPORTED_ASSETS or
\* GET_ORDERS entry has exactly one response, on the channel of its orderId,
\* and a LATEST_PRICE entry or one of an unknown action has none; a response
\* is only published while its entry is being processed.
C18_OneResponsePerCommand ==
    /\ cmd_pc = "update_id" =>
           IF cmd_msg.action \in {"CREATE_ORDER", "CLOSE_ORDER", "GET_BALANCE_USD",
                                  "GET_BALANCE", "GET_SUPPORTED_ASSETS", "GET_ORDERS"}
           THEN /\ Len(published) = 1
                /\ published[1].channel = cmd_msg.orderId
           ELSE published = <<>>
    /\ cmd_pc = "read" => published = <<>>

\* C20: within a run the command loop reads the entries in the order of their
\* ids, none twice: each read takes the entry next after last_processed_id,
\* which by then is the id of the entry processed before it; and once
\* process_message has returned, with Ok or with an error, last_processed_id
\* is set to the entry's id before anything else is read.
C20_CommandLoopOrder ==
    [][/\ (cmd_pc = "read" /\ cmd_pc' # "read") =>
              /\ cmd_id # 0 => (last_processed_id = cmd_id /\ cmd_id' > cmd_id)
              /\ last_processed_id # Dollar => cmd_id' = last_processed_id + 1
              /\ cmd_id' \in (stream_base + 1)..StreamEnd'
              /\ last_processed_id' = last_processed_id
       /\ (cmd_pc = "update_id" /\ main_pc' = "run") =>
              /\ cmd_pc' \in {"update_id", "read"}
              /\ cmd_pc' = "update_id" => UNCHANGED <<cmd_id, last_processed_id>>
              /\ cmd_pc' = "read" => last_processed_id' = cmd_id
      ]_vars

\* C20's case: entry 2 has been read after entry 1, a price, was processed
\* and last_processed_id set to 1; it is a CREATE_ORDER whose margin is no
\* decimal, and process_message has returned an error for it.
C20_SecondEntryFailed ==
    /\ cmd_pc = "update_id"
    /\ cmd_id = 2
    /\ last_processed_id = 1
    /\ cmd_msg.action = "CREATE_ORDER"
    /\ cmd_result = "Invalid decimal"
    /\ published = <<>>
    /\ DOMAIN asset_prices # {}

\* C21: when handle_close_order has returned for a CLOSE_ORDER, db_queue has
\* got exactly one SAVE_CLOSED_ORDER record of the order if close_order
\* succeeded (the order was live, it is removed and its user credited),
\* whether or not the response could be published, and nothing if close_order
\* failed.
C21_ClosedOrderSaved ==
    [][CloseStep =>
          IF cmd_result' = "ok"
          THEN /\ cmd_msg'.orderId \in DOMAIN orders_by_id
               /\ cmd_msg'.orderId \notin DOMAIN orders_by_id'
               /\ Len(db_queue') = 1
               /\ db_queue'[1].action = "SAVE_CLOSED_ORDER"
               /\ db_queue'[1].orderId = cmd_msg'.orderId
               /\ cmd_pc' = "update_id"
          ELSE db_queue' = <<>>
      ]_vars

\* C22: a CREATE_ORDER that create_order takes as far as its divisions (its
\* fields parse, its timestamp is in the window, the balance covers the
\* margin, the asset has a price) with an open price of zero or a leverage of
\* zero is answered with ORDER_FAILED, changes no table, and leaves the engine
\* running with the command loop about to record the entry's id.
C22_ArithmeticTrapFails ==
    [][(/\ cmd_pc = "read"
        /\ cmd_id' # cmd_id
        /\ cmd_msg'.action = "CREATE_ORDER"
        /\ CreateInputError(cmd_msg') = "none"
        /\ cmd_msg'.age \in -5..5
        /\ ~DecLt(EnsureUser(users, cmd_msg'.user)[cmd_msg'.user].usd_balance,
                  DecFromStr(cmd_msg'.margin).value)
        /\ cmd_msg'.asset \in DOMAIN asset_prices
        /\ \/ OpenPrice(asset_prices[cmd_msg'.asset], cmd_msg'.type).m = 0
           \/ cmd_msg'.leverage = 0)
       => /\ main_pc' = "run"
          /\ cmd_pc' = "update_id"
          /\ Len(published') = 1
          /\ published'[1].action = "ORDER_FAILED"
          /\ OrdersUnchanged
          /\ asset_prices' = asset_prices
          /\ \A u \in DOMAIN users : users'[u] = users[u]
      ]_vars

\* C23: no empty buckets: in every state no user's list in orders_by_user is
\* empty, no bucket of liquidation_map is an empty list, and no asset of
\* liquidation_map has an empty map.
C23_NoEmptyBuckets ==
    /\ \A u \in DOMAIN orders_by_user : orders_by_user[u] # <<>>
    /\ \A a \in DOMAIN liquidation_map :
          /\ DOMAIN liquidation_map[a] # {}
          /\ \A k \in DOMAIN liquidation_map[a] : liquidation_map[a][k] # <<>>

\* C23's case: a user's only order was closed, or taken by liquidate_order,
\* while another user's order stays: the first user's list and the order's
\* bucket are gone, the other's are there.
C23_LastOrderRemoved ==
    /\ "u1" \in DOMAIN users
    /\ "u1" \notin DOMAIN orders_by_user
    /\ "u2" \in DOMAIN orders_by_user
    /\ DOMAIN orders_by_id = {"o2"}
    /\ \/ cmd_result = "ok" /\ cmd_msg.action = "CLOSE_ORDER"
       \/ liq_result.result = "ok"

\* C24: deadlock freedom: in no state are there two tasks each of which holds
\* a table lock that the other is waiting for.
C24_DeadlockFree ==
    \A t \in Tasks : \A u \in Tasks \ {t} : ~(WaitsFor(t, u) /\ WaitsFor(u, t))

\* C26: a snapshot is a consistent cut: while save_snapshot holds the read
\* locks of all five tables, which is when it serialises them, no other task
\* is inside a create_order, close_order or liquidate_order that has taken its
\* first lock and has not returned.
C26_SnapshotConsistentCut ==
    locks.held["snap"] = {<<tb, "read">> : tb \in {"users", "orders_by_id",
                             "orders_by_user", "liquidation_map", "asset_prices"}}
    => \A t \in Tasks \ {"snap"} :
          locks.op[t] \in {"create_order", "close_order", "liquidate_order"}
          => locks.pc[t] = 1

\* C26's case: save_snapshot holds all five read locks while the command loop
\* has called create_order and the scanner liquidate_order; both wait for
\* their first lock.
C26_SnapshotWhileOthersWait ==
    /\ Cardinality(locks.held["snap"]) = 5
    /\ locks.op["cmd"] = "create_order"
    /\ locks.op["scan"] = "liquidate_order"
    /\ WaitsFor("cmd", "snap")
    /\ WaitsFor("scan", "snap")

\* C25: create_order commits atomically with respect to the scanner: a
\* check_liquidations that lists an order and a liquidate_order never run
\* while a create_order has put its order into orders_by_id and not yet into
\* orders_by_user and liquidation_map.
C25_CreateAtomicForScanner ==
    [][((scan_pc = "tick" /\ scan_pc' = "liquidate") \/ LiquidateStep)
          => ~InCreateOrder
      ]_vars

\* C27: check_liquidations lists for liquidate_order only orders whose own
\* trigger holds at the scan (mid <= its liquidation price for a long, mid >=
\* it for a short), also when a long and a short share a bucket. Stated for
\* the live orders that have one entry in liquidation_map, under the key of
\* their own liquidation price.
C27_OwnTriggerOnly ==
    [][(scan_pc = "tick" /\ scan_pc' = "liquidate") =>
          \A o \in ListedIds(liquidated_orders') :
             (/\ o \in DOMAIN orders_by_id
              /\ IndexedOnce(o)
              /\ Cardinality({p \in LiquidationPlaces :
                     liquidation_map[p[1]][p[2]][p[3]].order_id = o}) = 1)
             => TriggerHolds(orders_by_id[o])
      ]_vars

\* C29: liquidate_order changes only orders_by_id, orders_by_user and
\* liquidation_map: the users with their balances and the prices stay as they
\* are, no response is published and nothing is appended to db_queue.
C29_LiquidateFrame ==
    [][LiquidateStep =>
          /\ users' = users
          /\ asset_prices' = asset_prices
          /\ published' = published
          /\ db_queue' = db_queue
      ]_vars

\* C29's case: liquidate_order has removed the only order, of margin 100, and
\* its user's balance is still the 4900 that create_order left.
C29_MarginForfeited ==
    /\ liq_result.result = "ok"
    /\ DOMAIN orders_by_id = {}
    /\ liquidation_map = EmptyMap
    /\ DOMAIN users = {"u1"}
    /\ DecEq(users["u1"].usd_balance, DecFromInt(4900))

\* C30: every order of orders_by_id has a margin above zero, a leverage above
\* zero and the type long or short.
C30_LiveOrdersValid ==
    \A o \in DOMAIN orders_by_id :
       /\ orders_by_id[o].margin.m > 0
       /\ orders_by_id[o].leverage > 0
       /\ orders_by_id[o].order_type \in {"long", "short"}

\* The order is live and its trigger holds at the mid price.
Due(o) == o \in DOMAIN orders_by_id /\ TriggerHolds(orders_by_id[o])

C31_BalanceNeverNegative ==
    [][(/\ snapshot_file = AbsentFile
        /\ \A u \in DOMAIN users : DecGe(users[u].usd_balance, DecFromInt(0))
        /\ \A o \in DOMAIN orders_by_id : orders_by_id[o].margin.m > 0)
       => \A u \in DOMAIN users' : DecGe(users'[u].usd_balance, DecFromInt(0))
      ]_vars

\* The step hands process_message an entry that is neither CREATE_ORDER nor
\* CLOSE_ORDER.
NonOrderStep ==
    cmd_pc = "read" /\ cmd_pc' # "read"
    /\ cmd_msg'.action \notin {"CREATE_ORDER", "CLOSE_ORDER"}

\* C32: the commands that are no order commands have a restricted footprint.
\* LATEST_PRICE changes only the price entry of its symbol, which holds the
\* entry's values afterwards; GET_BALANCE_USD, GET_BALANCE and GET_ORDERS
\* change nothing except creating the named user with usd_balance 5000 if
\* absent; GET_SUPPORTED_ASSETS and unknown actions change nothing. None of
\* them alters an order table or the balance of a user there was, and no step
\* removes a user or a price entry.
C32_NonOrderFootprint ==
    [][/\ DOMAIN users \subseteq DOMAIN users'
       /\ DOMAIN asset_prices \subseteq DOMAIN asset_prices'
       /\ NonOrderStep =>
            LET msg == cmd_msg' IN
            /\ UNCHANGED <<orders_by_id, orders_by_user, liquidation_map>>
            /\ \A u \in DOMAIN users : users'[u] = users[u]
            /\ \A u \in DOMAIN users' \ DOMAIN users :
                  /\ msg.action \in {"GET_BALANCE_USD", "GET_BALANCE", "GET_ORDERS"}
                  /\ "user" \in DOMAIN msg /\ u = msg.user
                  /\ users'[u].usd_balance = DecFromInt(InitialUsd)
                  /\ users'[u].asset_balances = EmptyMap
            /\ IF msg.action = "LATEST_PRICE"
               THEN /\ \A a \in DOMAIN asset_prices' \ {msg.symbol} :
                          /\ a \in DOMAIN asset_prices
                          /\ asset_prices'[a] = asset_prices[a]
                    /\ IF HasFields(msg, {"symbol", "buyPrice", "sellPrice",
                                          "decimals"})
                       THEN /\ msg.symbol \in DOMAIN asset_prices'
                            /\ asset_prices'[msg.symbol].buy_price =
                                  DecFromStr(msg.buyPrice).value
                            /\ asset_prices'[msg.symbol].sell_price =
                                  DecFromStr(msg.sellPrice).value
                       ELSE asset_prices' = asset_prices
               ELSE asset_prices' = asset_prices
      ]_vars

\* C32's case: while u1's order o1 is live and the prices of BTC and ETH are
\* known, GET_BALANCE_USD has created u2 with 5000 and left the rest alone.
C32_QueryCreatedUser ==
    /\ cmd_pc = "update_id"
    /\ cmd_msg.action = "GET_BALANCE_USD"
    /\ cmd_result = "ok"
    /\ DOMAIN orders_by_id = {"o1"}
    /\ DOMAIN asset_prices = {"BTC", "ETH"}
    /\ DOMAIN users = {"u1", "u2"}
    /\ DecEq(users["u1"].usd_balance, DecFromInt(4900))
    /\ DecEq(users["u2"].usd_balance, DecFromInt(InitialUsd))

\* The results with which a handler returns before it has a response to
\* publish: a field of the entry is missing or does not parse.
FieldErrors == {"Missing or invalid field", "Invalid decimal"}

\* C33: every failed broker operation is retried. A read_stream that fails
\* changes nothing and the loop reads again from the same last_processed_id,
\* so no entry is skipped; a publish of a response that fails is attempted
\* again, so the command loop goes on to the next entry (the write of
\* last_processed_id) only when the response of the CREATE_ORDER or
\* CLOSE_ORDER it handled has been published.
C33_BrokerFailuresRetried ==
    [][/\ (\/ cmd_pc = "read" /\ cmd_pc' = "backoff"
           \/ cmd_pc = "backoff" /\ cmd_pc' = "read") =>
             UNCHANGED <<tables, last_processed_id, cmd_id, stream, stream_base,
                         applied, published, db_queue>>
       /\ (/\ cmd_pc = "update_id" /\ cmd_pc' = "read"
           /\ cmd_msg.action \in {"CREATE_ORDER", "CLOSE_ORDER"}
           /\ cmd_result \notin FieldErrors) =>
             Len(published) = 1
      ]_vars

\* C34: in a run that starts from empty state, every live order's user is in
\* users and its asset has a price entry, so a close_order never fails with
\* "User not found" or "Asset price not available": called for a live order it
\* returns Ok, removes the order and credits margin + pnl to its user; called
\* for any other id it returns "Order not found" and changes nothing.
C34_CloseNeverHalfFails ==
    [][/\ \A o \in DOMAIN orders_by_id' :
             /\ orders_by_id'[o].user_id \in DOMAIN users'
             /\ orders_by_id'[o].asset \in DOMAIN asset_prices'
       /\ CloseStep =>
            LET id == cmd_msg'.orderId IN
            IF id \in DOMAIN orders_by_id
            THEN LET order == orders_by_id[id]
                     price == ClosePrice(asset_prices[order.asset], order.order_type)
                 IN  /\ cmd_result' = "ok"
                     /\ id \notin DOMAIN orders_by_id'
                     /\ DecEq(users'[order.user_id].usd_balance,
                              DecAdd(users[order.user_id].usd_balance,
                                     DecAdd(order.margin, PnlAt(order, price))))
            ELSE /\ cmd_result' = "Order not found"
                 /\ OrdersUnchanged
                 /\ users' = users
      ]_vars

\* C34's case: u1's live order o1, a long of margin 100 opened at 100, has
\* been closed at 80 before the scanner came to it: close_order returned Ok,
\* no order is left and u1 has 5000 - 100 + (100 - 200) = 4800.
C34_LiveOrderClosed ==
    /\ snapshot_file = AbsentFile
    /\ cmd_pc = "update_id"
    /\ cmd_msg = [action |-> "CLOSE_ORDER", orderId |-> "o1"]
    /\ cmd_result = "ok"
    /\ orders_by_id = EmptyMap
    /\ DecEq(asset_prices["BTC"].sell_price, DecFromInt(80))
    /\ DOMAIN users = {"u1"}
    /\ DecEq(users["u1"].usd_balance, DecFromInt(4800))

====
